---- MODULE Spec2Model ----
(***************************************************************************)
(* idle-ledger: the interval state machine (engine/blocks.py), the state   *)
(* classifier (engine/state.py) and the poll loop that drives them         *)
(* (cli/run.py).                                                           *)
(*                                                                         *)
(* Time.  A timestamp is a number of clock ticks; TicksPerSecond ticks     *)
(* make one second, so that int(timedelta.total_seconds()) is a real       *)
(* truncation and not the identity.  Python's None is NoneT for an         *)
(* optional number and the empty sequence for an optional object.          *)
(***************************************************************************)
EXTENDS Integers, Sequences, FiniteSets, TLC

\* ------------------------------------------------------------------ bounds
MaxTime == 4
MaxStamp == 2
TicksPerSecond == 2
MaxBlocks == 2
MaxIdle == 3
MaxThreshold == 2
MaxWall == 4
DaySeconds == 2
MaxQueue == 1
MaxSleepEvents == 1
MaxRestarts == 1
MaxBodyTicks == 1
MaxDocStamp == 1
MaxDocBlocks == 2
MaxRecords == 1
MaxCallBlocks == 1
MaxOffset == 1
MaxLogLines == 2
MaxLogDay == 1
MaxPuts == 3
MaxDrain == 2
MaxReadGap == 1

\* ------------------------------------------------------------------- types
\* None where a number is expected: below every timestamp the model forms
NoneT == -999

ACTIVITY == "activity"
BREAK == "break"
State == {ACTIVITY, BREAK}
\* Optional[State] without a state
NoState == "none"

Time == 0..MaxTime
OptTime == Time \cup {NoneT}

\* the timestamps handed to the manager when all three operations are called
Stamp == 0..MaxStamp
OptStamp == Stamp \cup {NoneT}

\* Optional[bool]: locked and inhibited of a Snapshot
OptBool == {"True", "False", "None"}

Block(type, start, end) == [type |-> type, start |-> start, end |-> end]

None == <<>>
Some(x) == <<x>>

Min(a, b) == IF a <= b THEN a ELSE b
Max(a, b) == IF a >= b THEN a ELSE b

\* int(td.total_seconds()) of a difference of d ticks: truncation toward zero
IntSeconds(d) == IF d >= 0 THEN d \div TicksPerSecond ELSE -((-d) \div TicksPerSecond)

VARIABLES
    manager,                \* a BlockManager: blocks and _current_block
    last,                   \* the latest call made on the manager
    snapshot,               \* the Snapshot at hand
    config,                 \* the Config
    result,                 \* what classify_state returned
    pc,                     \* where run.main() stands
    current_day,            \* locals of run.main()
    current_state,
    last_heartbeat_mono,
    provider_mode_logged,
    journal,                \* the daily journal files, by day
    tmp_files,              \* the .tmp files next to them, by day
    tick_log,               \* the transition-log lines of the latest tick
    tick_ops,               \* its calls of transition, log_transition and write_day
    queue,                  \* SleepWatcher._queue
    wall,                   \* the wall clock, in ticks
    mono,                   \* the monotonic clock, in ticks
    sleep_events,           \* how many sleep events the listener has put
    restarts,               \* how many times the program was started again
    config_file,            \* the content of config.toml
    meta,                   \* the diagnostics load_config returned
    log_files,              \* the transition-log files, by day
    drain_events            \* the list `events` of a drain() under way

driver == <<pc, current_day, current_state, last_heartbeat_mono, provider_mode_logged,
            journal, tmp_files, tick_log, tick_ops, queue, wall, mono, sleep_events, restarts>>

\* what lies on disk besides the journal
store == <<config_file, meta, log_files, drain_events>>

vars == <<manager, last, snapshot, config, result, driver, store>>

\* ------------------------------------------------------------ BlockManager
BlockManager == [blocks |-> <<>>, current_block |-> None]

get_current_block(m) == m.current_block

get_current_state(m) ==
    IF m.current_block # None THEN m.current_block[1].type
    ELSE IF m.blocks # <<>> THEN m.blocks[Len(m.blocks)].type
    ELSE NoState

\* mutant: the block is appended to the history and stays open
close_current_KeepOpen(m, end) ==
    IF m.current_block = None THEN m
    ELSE [blocks |-> Append(m.blocks, [m.current_block[1] EXCEPT !.end = end]),
          current_block |-> m.current_block]

close_current(m, end) ==
    IF m.current_block = None THEN m
    ELSE [blocks |-> Append(m.blocks, [m.current_block[1] EXCEPT !.end = end]),
          current_block |-> None]

open_new(m, state, start) ==
    [m EXCEPT !.current_block = Some(Block(state, start, NoneT))]

\* mutant: the cut is not raised to the block's start
GuardedEnd_NoLowerGuard(threshold_subtract, start, now) ==
    IF threshold_subtract > now THEN now ELSE threshold_subtract

\* the retroactive cut of ACTIVITY -> BREAK, guarded against time anomalies
GuardedEnd(threshold_subtract, start, now) ==
    LET end_time == IF threshold_subtract < start THEN start ELSE threshold_subtract
    IN  IF end_time > now THEN now ELSE end_time

\* mutant: the retroactive cut is applied in either direction
EndTime_AnyDirection(cur, new_state, now, threshold_subtract) ==
    IF threshold_subtract # NoneT
    THEN GuardedEnd(threshold_subtract, cur.start, now)
    ELSE now

\* the end of the closed block; the new block's start is the same value
EndTime(cur, new_state, now, threshold_subtract) ==
    IF threshold_subtract # NoneT /\ cur.type = ACTIVITY /\ new_state = BREAK
    THEN GuardedEnd(threshold_subtract, cur.start, now)
    ELSE now

\* mutant: the new block starts at now although the old one ended at the cut
NextStart_AtNow(cur, new_state, now, threshold_subtract) == now

NextStart(cur, new_state, now, threshold_subtract) ==
    IF threshold_subtract # NoneT /\ cur.type = ACTIVITY /\ new_state = BREAK
    THEN GuardedEnd(threshold_subtract, cur.start, now)
    ELSE now

\* mutant: a same-state call closes the open block and opens another
transition_AlwaysClose(m, new_state, now, threshold_subtract) ==
    IF m.current_block = None
    THEN [m EXCEPT !.current_block = Some(Block(new_state, now, NoneT))]
    ELSE LET cur == m.current_block[1] IN
         [blocks |-> Append(m.blocks,
              [cur EXCEPT !.end = EndTime(cur, new_state, now, threshold_subtract)]),
          current_block |-> Some(Block(new_state,
              NextStart(cur, new_state, now, threshold_subtract), NoneT))]

\* mutant: a same-state call restarts the open block at now
transition_Restart(m, new_state, now, threshold_subtract) ==
    IF m.current_block = None
    THEN [m EXCEPT !.current_block = Some(Block(new_state, now, NoneT))]
    ELSE LET cur == m.current_block[1] IN
         IF cur.type = new_state
         THEN [m EXCEPT !.current_block = Some(Block(new_state, now, NoneT))]
         ELSE [blocks |-> Append(m.blocks,
                    [cur EXCEPT !.end = EndTime(cur, new_state, now, threshold_subtract)]),
               current_block |-> Some(Block(new_state,
                    NextStart(cur, new_state, now, threshold_subtract), NoneT))]

\* mutant: the first block starts at the retroactive cut when one is passed
transition_FirstAtCut(m, new_state, now, threshold_subtract) ==
    IF m.current_block = None
    THEN [m EXCEPT !.current_block =
              Some(Block(new_state,
                         IF threshold_subtract # NoneT THEN threshold_subtract ELSE now,
                         NoneT))]
    ELSE LET cur == m.current_block[1] IN
         IF cur.type = new_state THEN m
         ELSE [blocks |-> Append(m.blocks,
                    [cur EXCEPT !.end = EndTime(cur, new_state, now, threshold_subtract)]),
               current_block |-> Some(Block(new_state,
                    NextStart(cur, new_state, now, threshold_subtract), NoneT))]

transition(m, new_state, now, threshold_subtract) ==
    IF m.current_block = None
    THEN [m EXCEPT !.current_block = Some(Block(new_state, now, NoneT))]
    ELSE LET cur == m.current_block[1] IN
         IF cur.type = new_state THEN m
         ELSE [blocks |-> Append(m.blocks,
                    [cur EXCEPT !.end = EndTime(cur, new_state, now, threshold_subtract)]),
               current_block |-> Some(Block(new_state,
                    NextStart(cur, new_state, now, threshold_subtract), NoneT))]

\* mutant: a negative duration is not clamped
BlockDuration_Unclamped(block, now) ==
    LET end == IF block.end # NoneT THEN block.end ELSE now
    IN  IntSeconds(end - block.start)

\* `block.end or datetime.now()`, then max(0, int(seconds))
BlockDuration(block, now) ==
    LET end == IF block.end # NoneT THEN block.end ELSE now
    IN  Max(0, IntSeconds(end - block.start))

RECURSIVE SumDurations(_, _, _)
SumDurations(seq, type, now) ==
    IF seq = <<>> THEN 0
    ELSE (IF Head(seq).type = type THEN BlockDuration(Head(seq), now) ELSE 0)
         + SumDurations(Tail(seq), type, now)

get_totals(m, now) ==
    [activity_seconds |-> SumDurations(m.blocks \o m.current_block, ACTIVITY, now),
     break_seconds |-> SumDurations(m.blocks \o m.current_block, BREAK, now)]

\* -------------------------------------------------------------- classifier
\* mutant: the threshold itself already counts as a break
classify_state_Exclusive(snap, cfg) ==
    IF snap.locked = "True" THEN BREAK
    ELSE IF snap.idle_seconds = NoneT THEN ACTIVITY
    ELSE IF snap.idle_seconds < cfg.threshold_seconds THEN ACTIVITY
    ELSE IF cfg.treat_inhibitor_as_activity /\ snap.inhibited = "True" THEN ACTIVITY
    ELSE BREAK

\* mutant: the idle rules are tried before the lock rule
classify_state_IdleFirst(snap, cfg) ==
    IF snap.idle_seconds = NoneT THEN ACTIVITY
    ELSE IF snap.idle_seconds <= cfg.threshold_seconds /\ snap.locked # "True" THEN ACTIVITY
    ELSE IF snap.locked = "True" THEN BREAK
    ELSE IF cfg.treat_inhibitor_as_activity /\ snap.inhibited = "True" THEN ACTIVITY
    ELSE BREAK

\* mutant: an unknown idle time falls through to the inhibitor rule
classify_state_NoFailOpen(snap, cfg) ==
    IF snap.locked = "True" THEN BREAK
    ELSE IF snap.idle_seconds # NoneT /\ snap.idle_seconds <= cfg.threshold_seconds
         THEN ACTIVITY
    ELSE IF cfg.treat_inhibitor_as_activity /\ snap.inhibited = "True" THEN ACTIVITY
    ELSE BREAK

\* mutant: one second above the threshold still counts as activity
classify_state_OffByOne(snap, cfg) ==
    IF snap.locked = "True" THEN BREAK
    ELSE IF snap.idle_seconds = NoneT THEN ACTIVITY
    ELSE IF snap.idle_seconds <= cfg.threshold_seconds + 1 THEN ACTIVITY
    ELSE IF cfg.treat_inhibitor_as_activity /\ snap.inhibited = "True" THEN ACTIVITY
    ELSE BREAK

classify_state(snap, cfg) ==
    IF snap.locked = "True" THEN BREAK
    ELSE IF snap.idle_seconds = NoneT THEN ACTIVITY
    ELSE IF snap.idle_seconds <= cfg.threshold_seconds THEN ACTIVITY
    ELSE IF cfg.treat_inhibitor_as_activity /\ snap.inhibited = "True" THEN ACTIVITY
    ELSE BREAK

Snapshots ==
    [now_wall : {0}, now_mono : {0},
     idle_seconds : (0..MaxIdle) \cup {NoneT}, locked : OptBool, inhibited : OptBool]

Configs ==
    [threshold_seconds : 0..MaxThreshold, treat_inhibitor_as_activity : BOOLEAN,
     journal_heartbeat_seconds : {1}]

\* --------------------------------------------- idle values of unused state
NoCall == [op |-> "none"]
NoSnapshot ==
    [now_wall |-> NoneT, now_mono |-> NoneT,
     idle_seconds |-> NoneT, locked |-> "None", inhibited |-> "None"]
NoConfig ==
    [threshold_seconds |-> 0, treat_inhibitor_as_activity |-> TRUE,
     journal_heartbeat_seconds |-> 1]

StoreUnused ==
    config_file = <<>> /\ meta = <<>> /\ log_files = <<>> /\ drain_events = <<>>
ManagerUnused == manager = BlockManager /\ last = NoCall
ClassifierUnused == snapshot = NoSnapshot /\ config = NoConfig /\ result = "none"
DriverUnused ==
    /\ pc = "none"
    /\ current_day = NoneT
    /\ current_state = NoState
    /\ last_heartbeat_mono = NoneT
    /\ provider_mode_logged = FALSE
    /\ journal = <<>>
    /\ tmp_files = <<>>
    /\ tick_log = <<>>
    /\ tick_ops = <<>>
    /\ queue = <<>>
    /\ wall = 0
    /\ mono = 0
    /\ sleep_events = 0
    /\ restarts = 0
    /\ StoreUnused

\* ------------------------------------- SpecTransition: transition() alone
\* A fresh manager driven by transition() with any state, any timestamp and
\* any retroactive cut (or none).  last holds the call just made, the open
\* block it found (prior) and the time of the first call (t0).
HistoryRoom(m, new_state) ==
    IF m.current_block = None THEN TRUE
    ELSE IF m.current_block[1].type = new_state THEN TRUE
    ELSE Len(m.blocks) < MaxBlocks

CallTransition(new_state, now, threshold_subtract) ==
    /\ HistoryRoom(manager, new_state)
    /\ manager' = transition(manager, new_state, now, threshold_subtract)
    /\ last' = [op |-> "transition", new_state |-> new_state, now |-> now,
                threshold_subtract |-> threshold_subtract,
                prior |-> manager.current_block,
                t0 |-> IF last.op = "none" THEN now ELSE last.t0]
    /\ UNCHANGED <<snapshot, config, store, result, driver>>

InitTransition ==
    manager = BlockManager /\ last = NoCall /\ ClassifierUnused /\ DriverUnused

NextTransition ==
    \E new_state \in State, now \in Time, threshold_subtract \in OptTime :
        CallTransition(new_state, now, threshold_subtract)

SpecTransition == InitTransition /\ [][NextTransition]_vars

\* -------------------- SpecManager: transition, close_current and open_new
CallClose(end) ==
    /\ (IF manager.current_block = None THEN TRUE ELSE Len(manager.blocks) < MaxBlocks)
    /\ manager' = close_current(manager, end)
    /\ last' = [op |-> "close_current"]
    /\ UNCHANGED <<snapshot, config, store, result, driver>>

CallOpen(state, start) ==
    /\ manager' = open_new(manager, state, start)
    /\ last' = [op |-> "open_new"]
    /\ UNCHANGED <<snapshot, config, store, result, driver>>

CallTransitionM(new_state, now, threshold_subtract) ==
    /\ HistoryRoom(manager, new_state)
    /\ manager' = transition(manager, new_state, now, threshold_subtract)
    /\ last' = [op |-> "transition"]
    /\ UNCHANGED <<snapshot, config, store, result, driver>>

InitManager ==
    manager = BlockManager /\ last = NoCall /\ ClassifierUnused /\ DriverUnused

NextManager ==
    \/ \E new_state \in State, now \in Stamp, threshold_subtract \in OptStamp :
           CallTransitionM(new_state, now, threshold_subtract)
    \/ \E end \in Stamp : CallClose(end)
    \/ \E state \in State, start \in Stamp : CallOpen(state, start)

SpecManager == InitManager /\ [][NextManager]_vars

\* ------------------------- SpecCall: one call on a manager in any condition
\* A manager of any closed blocks, with or without an open block, as
\* close_current, open_new and load can leave it, receives one call.  last
\* holds the call, its arguments and the manager it found (before).
CallManagers ==
    [blocks : UNION {[1..n -> {Block(type, start, end) :
                                  type \in State, start \in Stamp, end \in Stamp}] :
                         n \in 0..MaxCallBlocks},
     current_block : {None} \cup {Some(Block(type, start, NoneT)) :
                                      type \in State, start \in Stamp}]

OneTransition(new_state, now, threshold_subtract) ==
    /\ last = NoCall
    /\ manager' = transition(manager, new_state, now, threshold_subtract)
    /\ last' = [op |-> "transition", new_state |-> new_state, now |-> now,
                threshold_subtract |-> threshold_subtract, before |-> manager]
    /\ UNCHANGED <<snapshot, config, store, result, driver>>

OneClose(end) ==
    /\ last = NoCall
    /\ manager' = close_current(manager, end)
    /\ last' = [op |-> "close_current", end |-> end, before |-> manager]
    /\ UNCHANGED <<snapshot, config, store, result, driver>>

InitCall ==
    manager \in CallManagers /\ last = NoCall /\ ClassifierUnused /\ DriverUnused

NextCall ==
    \/ \E new_state \in State, now \in Stamp, threshold_subtract \in OptStamp :
           OneTransition(new_state, now, threshold_subtract)
    \/ \E end \in Stamp : OneClose(end)

SpecCall == InitCall /\ [][NextCall]_vars

\* ------------------------------------------ SpecClassify: classify_state
Classify ==
    /\ result = "pending"
    /\ result' = classify_state(snapshot, config)
    /\ UNCHANGED <<manager, last, snapshot, config, store, driver>>

NextSnapshot ==
    /\ result # "pending"
    /\ snapshot' \in Snapshots
    /\ result' = "pending"
    /\ UNCHANGED <<manager, last, config, store, driver>>

InitClassify ==
    /\ ManagerUnused
    /\ DriverUnused
    /\ snapshot \in Snapshots
    /\ config \in Configs
    /\ result = "pending"

NextClassify == Classify \/ NextSnapshot

SpecClassify == InitClassify /\ [][NextClassify]_vars

\* ------------------------------------------------------------ JournalStore
DayTicks == DaySeconds * TicksPerSecond
\* datetime.date() and local midnight of a date
Date(t) == t \div DayTicks
Midnight(day) == day * DayTicks
\* the days that a run of MaxWall ticks can see
Days == 0..Date(Midnight(1) + MaxWall)

\* datetime.isoformat(): the whole seconds, and the fraction only when there
\* is one; datetime.fromisoformat() reads both forms
isoformat(t) ==
    [seconds |-> t \div TicksPerSecond,
     fraction |-> IF t % TicksPerSecond = 0 THEN NoneT ELSE t % TicksPerSecond]

\* mutant: the fraction of a second is not read back
fromisoformat_WholeSeconds(s) == s.seconds * TicksPerSecond

fromisoformat(s) ==
    s.seconds * TicksPerSecond + (IF s.fraction = NoneT THEN 0 ELSE s.fraction)

\* a string that fromisoformat rejects with ValueError
NotIso == [seconds |-> NoneT, fraction |-> NoneT]

block_seconds(start, end) == Max(0, IntSeconds(end - start))

\* mutant: the open block is written without a checkpoint end
block_to_dict_NoCheckpoint(block, now_wall, open_block) ==
    [json |-> "object",
     type |-> block.type,
     start |-> Some(isoformat(block.start)),
     end |-> IF block.end # NoneT THEN Some(isoformat(block.end)) ELSE None,
     seconds |-> IF block.end # NoneT THEN block_seconds(block.start, block.end) ELSE NoneT,
     open |-> open_block]

\* a JSON object; a key that may be absent or null holds None or Some(value)
block_to_dict(block, now_wall, open_block) ==
    LET end == IF block.end = NoneT /\ now_wall # NoneT THEN now_wall ELSE block.end
    IN  [json |-> "object",
         type |-> block.type,
         start |-> Some(isoformat(block.start)),
         end |-> IF end # NoneT THEN Some(isoformat(end)) ELSE None,
         seconds |-> IF end # NoneT THEN block_seconds(block.start, end) ELSE NoneT,
         open |-> open_block]

\* KeyError for a missing type or start, ValueError for a type that is no
\* State or a timestamp that is no ISO string
block_from_dict_raises(raw) ==
    IF raw.type \notin State THEN TRUE
    ELSE IF raw.start = None THEN TRUE
    ELSE IF raw.start[1] = NotIso THEN TRUE
    ELSE IF raw.end = None THEN FALSE
    ELSE raw.end[1] = NotIso

block_from_dict(raw) ==
    Block(raw.type, fromisoformat(raw.start[1]),
          IF raw.end # None THEN fromisoformat(raw.end[1]) ELSE NoneT)

\* the items of blocks_raw that are JSON objects, in order
RECURSIVE DictItems(_)
DictItems(blocks_raw) ==
    IF blocks_raw = <<>> THEN <<>>
    ELSE IF Head(blocks_raw).json = "object"
         THEN <<Head(blocks_raw)>> \o DictItems(Tail(blocks_raw))
         ELSE DictItems(Tail(blocks_raw))

\* how load_day ends: "absent" (returns None), "manager", or "raise"
load_day_outcome(files, day) ==
    IF files[day] = None THEN "absent"
    ELSE LET file == files[day][1] IN
         IF file.form = "unreadable" THEN "absent"
         ELSE IF file.form = "undecodable" THEN "raise"
         ELSE IF file.form = "invalid_json" THEN "absent"
         ELSE IF file.form # "object" THEN "raise"
         ELSE IF file.blocks_json # "list" THEN "absent"
         ELSE IF \E i \in 1..Len(DictItems(file.blocks)) :
                     block_from_dict_raises(DictItems(file.blocks)[i])
              THEN "raise"
         ELSE "manager"

\* mutant: the record flagged open comes back as the open block
load_day_Reopen(files, day) ==
    IF load_day_outcome(files, day) # "manager" THEN None
    ELSE LET items == DictItems(files[day][1].blocks)
             n == Len(items)
             reopen == IF n = 0 THEN FALSE ELSE items[n].open
         IN  Some([blocks |-> [i \in 1..(IF reopen THEN n - 1 ELSE n) |->
                                  block_from_dict(items[i])],
                   current_block |-> IF reopen
                                     THEN Some([block_from_dict(items[n]) EXCEPT !.end = NoneT])
                                     ELSE None])

load_day(files, day) ==
    IF load_day_outcome(files, day) # "manager" THEN None
    ELSE LET items == DictItems(files[day][1].blocks)
         IN  Some([blocks |-> [i \in 1..Len(items) |-> block_from_dict(items[i])],
                   current_block |-> None])

\* the document of a day; now_wall is the clock read at line 88, totals_now
\* the later read of get_totals
day_payload(day, cfg, m, now_wall, totals_now) ==
    LET closed == [i \in 1..Len(m.blocks) |-> block_to_dict(m.blocks[i], NoneT, FALSE)]
        blocks == IF m.current_block # None
                  THEN Append(closed, block_to_dict(m.current_block[1], now_wall, TRUE))
                  ELSE closed
    IN  [form |-> "object",
         blocks_json |-> "list",
         date |-> day,
         threshold_seconds |-> cfg.threshold_seconds,
         treat_inhibitor_as_activity |-> cfg.treat_inhibitor_as_activity,
         blocks |-> blocks,
         totals |-> get_totals(m, totals_now)]

\* the whole write: the document replaces the day's file in one step
write_day_atomic(files, day, cfg, m, now_wall, totals_now) ==
    [files EXCEPT ![day] = Some(day_payload(day, cfg, m, now_wall, totals_now))]

\* The steps of the write on the pair fs of the day's files: the journal
\* path and the .tmp path next to it.  A file opened for writing is empty,
\* and until the text is written and synced it is a prefix of it: no JSON.
Truncated == [form |-> "invalid_json"]

\* mutant: the text is written to the journal path itself
open_w_InPlace(fs, day) == [fs EXCEPT !.journal[day] = Some(Truncated)]

open_w(fs, day) == [fs EXCEPT !.tmp[day] = Some(Truncated)]

write_fsync(fs, day, text) == [fs EXCEPT !.tmp[day] = Some(text)]

os_replace(fs, day) ==
    [journal |-> [fs.journal EXCEPT ![day] = fs.tmp[day]],
     tmp |-> [fs.tmp EXCEPT ![day] = None]]

\* ------------------------------------------------------ run.main(): a tick
\* The locals of main() and the files it writes travel through the steps of
\* one loop iteration as a record c; clk holds the clock reads of a journal
\* write (w for the checkpoint, wt for the totals), taken here at one
\* reading of the clock; SpecJournal lets the second read be later.
SUSPEND == "suspend"
RESUME == "resume"

\* mutant: the first tick starts from an empty manager, whatever the journal
StartDay_NoLoad(c, snap) ==
    IF c.current_day # NoneT THEN c
    ELSE [c EXCEPT !.current_day = Date(snap.now_wall),
                   !.block_manager = BlockManager,
                   !.current_state = NoState,
                   !.last_heartbeat_mono = snap.now_mono]

StartDay(c, snap) ==
    IF c.current_day # NoneT THEN c
    ELSE LET day == Date(snap.now_wall)
             loaded == load_day(c.journal, day)
         IN  [c EXCEPT !.current_day = day,
                       !.block_manager = IF loaded # None THEN loaded[1] ELSE BlockManager,
                       !.current_state = NoState,
                       !.last_heartbeat_mono = snap.now_mono]

WriteDay(c, snap, cfg, clk) ==
    [c EXCEPT !.journal = write_day_atomic(c.journal, c.current_day, cfg,
                                           c.block_manager, clk.w, clk.wt),
              !.ops = Append(@, [op |-> "write_day", day |-> c.current_day]),
              !.last_heartbeat_mono = snap.now_mono]

\* mutant: a SUSPEND moves the manager to BREAK but not the tracked state
ApplySleepEvent_NoTrack(c, event, snap, cfg, clk) ==
    IF event.kind = SUSPEND
    THEN LET logged == [c EXCEPT !.log = Append(@,
                 [event |-> "sleep", ts |-> event.when, phase |-> "suspend",
                  prev_state |-> c.current_state])]
             moved == [logged EXCEPT
                      !.block_manager = transition(c.block_manager, BREAK, event.when, NoneT),
                      !.ops = Append(@, [op |-> "transition", new_state |-> BREAK])]
         IN  IF c.current_state # BREAK THEN WriteDay(moved, snap, cfg, clk) ELSE logged
    ELSE [c EXCEPT !.log = Append(@,
             [event |-> "sleep", ts |-> event.when, phase |-> "resume",
              state |-> c.current_state])]

ApplySleepEvent(c, event, snap, cfg, clk) ==
    IF event.kind = SUSPEND
    THEN LET logged == [c EXCEPT !.log = Append(@,
                 [event |-> "sleep", ts |-> event.when, phase |-> "suspend",
                  prev_state |-> c.current_state])]
             moved == [logged EXCEPT
                      !.block_manager = transition(c.block_manager, BREAK, event.when, NoneT),
                      !.ops = Append(@, [op |-> "transition", new_state |-> BREAK]),
                      !.current_state = BREAK]
         IN  IF c.current_state # BREAK THEN WriteDay(moved, snap, cfg, clk) ELSE logged
    ELSE [c EXCEPT !.log = Append(@,
             [event |-> "sleep", ts |-> event.when, phase |-> "resume",
              state |-> c.current_state])]

\* mutant: the newest event of the queue is applied first
RECURSIVE DrainEvents_NewestFirst(_, _, _, _, _)
DrainEvents_NewestFirst(c, events, snap, cfg, clk) ==
    IF events = <<>> THEN c
    ELSE LET applied == ApplySleepEvent(c, events[Len(events)], snap, cfg, clk)
         IN  DrainEvents_NewestFirst(applied, SubSeq(events, 1, Len(events) - 1),
                                     snap, cfg, clk)

RECURSIVE DrainEvents(_, _, _, _, _)
DrainEvents(c, events, snap, cfg, clk) ==
    IF events = <<>> THEN c
    ELSE LET applied == ApplySleepEvent(c, Head(events), snap, cfg, clk)
         IN  DrainEvents(applied, Tail(events), snap, cfg, clk)

ProviderMode(c, snap) ==
    IF c.provider_mode_logged THEN c
    ELSE [c EXCEPT !.log = Append(@, [event |-> "provider_mode", ts |-> snap.now_wall]),
                   !.provider_mode_logged = TRUE]

\* mutant: the open block is closed at the snapshot's time, not at midnight
Rollover_CloseAtNow(c, snap, cfg, clk) ==
    LET snap_day == Date(snap.now_wall)
        midnight == snap.now_wall
    IN  IF snap_day = c.current_day THEN c
        ELSE LET closed == close_current(c.block_manager, midnight)
                 old == IF c.current_state # NoState
                        THEN [c EXCEPT
                                !.block_manager = closed,
                                !.journal = write_day_atomic(c.journal, c.current_day, cfg,
                                                             closed, clk.w, clk.wt),
                                !.ops = Append(@, [op |-> "write_day",
                                                   day |-> c.current_day]),
                                !.log = Append(@,
                                    [event |-> "rollover", ts |-> midnight,
                                     from |-> c.current_day, to |-> snap_day,
                                     state |-> c.current_state])]
                        ELSE c
                 new == [old EXCEPT !.current_day = snap_day, !.block_manager = BlockManager]
                 carried == [new EXCEPT !.block_manager =
                                open_new(BlockManager, c.current_state, midnight)]
             IN  IF c.current_state # NoState THEN WriteDay(carried, snap, cfg, clk)
                 ELSE new

\* mutant: the old day is written before its open block is closed
Rollover_WriteOpen(c, snap, cfg, clk) ==
    LET snap_day == Date(snap.now_wall)
        midnight == Midnight(snap_day)
    IN  IF snap_day = c.current_day THEN c
        ELSE LET closed == close_current(c.block_manager, midnight)
                 old == IF c.current_state # NoState
                        THEN [c EXCEPT
                                !.block_manager = closed,
                                !.journal = write_day_atomic(c.journal, c.current_day, cfg,
                                                             c.block_manager, clk.w, clk.wt),
                                !.ops = Append(@, [op |-> "write_day",
                                                   day |-> c.current_day]),
                                !.log = Append(@,
                                    [event |-> "rollover", ts |-> midnight,
                                     from |-> c.current_day, to |-> snap_day,
                                     state |-> c.current_state])]
                        ELSE c
                 new == [old EXCEPT !.current_day = snap_day, !.block_manager = BlockManager]
                 carried == [new EXCEPT !.block_manager =
                                open_new(BlockManager, c.current_state, midnight)]
             IN  IF c.current_state # NoState THEN WriteDay(carried, snap, cfg, clk)
                 ELSE new

Rollover(c, snap, cfg, clk) ==
    LET snap_day == Date(snap.now_wall)
        midnight == Midnight(snap_day)
    IN  IF snap_day = c.current_day THEN c
        ELSE LET closed == close_current(c.block_manager, midnight)
                 old == IF c.current_state # NoState
                        THEN [c EXCEPT
                                !.block_manager = closed,
                                !.journal = write_day_atomic(c.journal, c.current_day, cfg,
                                                             closed, clk.w, clk.wt),
                                !.ops = Append(@, [op |-> "write_day",
                                                   day |-> c.current_day]),
                                !.log = Append(@,
                                    [event |-> "rollover", ts |-> midnight,
                                     from |-> c.current_day, to |-> snap_day,
                                     state |-> c.current_state])]
                        ELSE c
                 new == [old EXCEPT !.current_day = snap_day, !.block_manager = BlockManager]
                 carried == [new EXCEPT !.block_manager =
                                open_new(BlockManager, c.current_state, midnight)]
             IN  IF c.current_state # NoState THEN WriteDay(carried, snap, cfg, clk)
                 ELSE new

\* mutant: the cut is put at the last activity, without the threshold
RetroactiveCut_NoThreshold(snap, cfg) ==
    snap.now_wall - snap.idle_seconds * TicksPerSecond

\* last_active + timedelta(seconds=threshold_seconds)
RetroactiveCut(snap, cfg) ==
    (snap.now_wall - snap.idle_seconds * TicksPerSecond)
        + cfg.threshold_seconds * TicksPerSecond

LogTransition(c, when, prev_state, next_state, snap) ==
    [c EXCEPT !.log = Append(@,
        [event |-> IF prev_state # NoState THEN "transition" ELSE "start",
         ts |-> when, prev_state |-> prev_state, next_state |-> next_state,
         idle_seconds |-> snap.idle_seconds]),
              !.ops = Append(@,
        [op |-> "log_transition",
         event |-> IF prev_state # NoState THEN "transition" ELSE "start"])]

\* mutant: the journal is written before the transition is applied
ClassifyStep_WriteFirst(c, snap, cfg, clk) ==
    LET new_state == classify_state(snap, cfg)
        threshold_subtract ==
            IF c.current_state = ACTIVITY /\ new_state = BREAK /\ snap.idle_seconds # NoneT
            THEN RetroactiveCut(snap, cfg)
            ELSE NoneT
        written == WriteDay(c, snap, cfg, clk)
        first == LogTransition(
            [written EXCEPT !.block_manager =
                          transition(c.block_manager, new_state, snap.now_wall, NoneT),
                      !.ops = Append(@, [op |-> "transition", new_state |-> new_state]),
                      !.current_state = new_state],
            snap.now_wall, NoState, new_state, snap)
        changed == [LogTransition(
            [written EXCEPT !.block_manager =
                          transition(c.block_manager, new_state, snap.now_wall,
                                     threshold_subtract),
                      !.ops = Append(@, [op |-> "transition", new_state |-> new_state])],
            snap.now_wall, c.current_state, new_state, snap)
            EXCEPT !.current_state = new_state]
    IN  IF c.current_state = NoState THEN first
        ELSE IF new_state # c.current_state THEN changed
        ELSE c

ClassifyStep(c, snap, cfg, clk) ==
    LET new_state == classify_state(snap, cfg)
        threshold_subtract ==
            IF c.current_state = ACTIVITY /\ new_state = BREAK /\ snap.idle_seconds # NoneT
            THEN RetroactiveCut(snap, cfg)
            ELSE NoneT
        first == LogTransition(
            [c EXCEPT !.block_manager =
                          transition(c.block_manager, new_state, snap.now_wall, NoneT),
                      !.ops = Append(@, [op |-> "transition", new_state |-> new_state]),
                      !.current_state = new_state],
            snap.now_wall, NoState, new_state, snap)
        changed == [LogTransition(
            [c EXCEPT !.block_manager =
                          transition(c.block_manager, new_state, snap.now_wall,
                                     threshold_subtract),
                      !.ops = Append(@, [op |-> "transition", new_state |-> new_state])],
            snap.now_wall, c.current_state, new_state, snap)
            EXCEPT !.current_state = new_state]
    IN  IF c.current_state = NoState THEN WriteDay(first, snap, cfg, clk)
        ELSE IF new_state # c.current_state THEN WriteDay(changed, snap, cfg, clk)
        ELSE c

\* mutant: no heartbeat
Heartbeat_Never(c, snap, cfg, clk) == c

Heartbeat(c, snap, cfg, clk) ==
    IF /\ c.last_heartbeat_mono # NoneT
       /\ snap.now_mono - c.last_heartbeat_mono
              >= cfg.journal_heartbeat_seconds * TicksPerSecond
    THEN WriteDay(c, snap, cfg, clk)
    ELSE c

LoopBody(c, events, snap, cfg, clk) ==
    LET started == StartDay(c, snap)
        drained == DrainEvents(started, events, snap, cfg, clk)
        moded == ProviderMode(drained, snap)
        rolled == Rollover(moded, snap, cfg, clk)
        classified == ClassifyStep(rolled, snap, cfg, clk)
    IN  Heartbeat(classified, snap, cfg, clk)

Locals ==
    [current_day |-> current_day, block_manager |-> manager,
     current_state |-> current_state, last_heartbeat_mono |-> last_heartbeat_mono,
     provider_mode_logged |-> provider_mode_logged, journal |-> journal, log |-> <<>>,
     ops |-> <<>>]

SetLocals(c) ==
    /\ current_day' = c.current_day
    /\ manager' = c.block_manager
    /\ current_state' = c.current_state
    /\ last_heartbeat_mono' = c.last_heartbeat_mono
    /\ provider_mode_logged' = c.provider_mode_logged
    /\ journal' = c.journal
    /\ tick_log' = c.log
    /\ tick_ops' = c.ops

\* the memory of a process that is gone
FreshLocals ==
    /\ current_day' = NoneT
    /\ manager' = BlockManager
    /\ current_state' = NoState
    /\ last_heartbeat_mono' = NoneT
    /\ provider_mode_logged' = FALSE
    /\ tick_log' = <<>>
    /\ tick_ops' = <<>>
    /\ queue' = <<>>
    /\ snapshot' = NoSnapshot

\* ------------------------------------------------ SpecDriver: the poll loop
\* provider.get_snapshot() reads the clocks; the readings of idle time, lock
\* and inhibitor are drawn when the loop body uses them.  The sleep of
\* poll_seconds > 0 lies behind, so the wall clock has moved on since the
\* last snapshot.
GetSnapshot ==
    /\ pc = "poll"
    /\ snapshot.now_wall = NoneT \/ wall > snapshot.now_wall
    /\ snapshot' = [NoSnapshot EXCEPT !.now_wall = wall, !.now_mono = mono]
    /\ pc' = "tick"
    /\ UNCHANGED <<manager, last, config, store, result, current_day, current_state,
                   last_heartbeat_mono, provider_mode_logged, journal, tick_log, tick_ops,
                   queue, wall, mono, sleep_events, restarts, tmp_files>>

\* the rest of the loop body, up to time.sleep, with the readings the
\* provider put into the snapshot
ProcessTick ==
    /\ pc = "tick"
    /\ \E idle \in (0..MaxIdle) \cup {NoneT}, locked \in OptBool, inhibited \in OptBool :
           LET snap == [snapshot EXCEPT !.idle_seconds = idle, !.locked = locked,
                                        !.inhibited = inhibited]
           IN  SetLocals(LoopBody(Locals, queue, snap, config,
                                  [w |-> wall, wt |-> wall]))
    /\ queue' = <<>>
    /\ pc' = "sleep"
    /\ UNCHANGED <<last, snapshot, config, store, result, wall, mono, sleep_events, restarts, tmp_files>>

\* time.sleep(poll_seconds) begins: the tick is over
Sleep ==
    /\ pc = "sleep"
    /\ pc' = "poll"
    /\ tick_log' = <<>>
    /\ tick_ops' = <<>>
    /\ UNCHANGED <<manager, last, snapshot, config, store, result, current_day, current_state,
                   last_heartbeat_mono, provider_mode_logged, journal, queue, wall, mono,
                   sleep_events, restarts, tmp_files>>

\* the listener thread: handler(sleeping) puts an event stamped with the clock
Listener(kind) ==
    /\ pc \in {"poll", "tick"}
    /\ Len(queue) < MaxQueue
    /\ sleep_events < MaxSleepEvents
    /\ queue' = Append(queue, [kind |-> kind, when |-> wall])
    /\ sleep_events' = sleep_events + 1
    /\ UNCHANGED <<manager, last, snapshot, config, store, result, pc, current_day,
                   current_state, last_heartbeat_mono, provider_mode_logged, journal,
                   tick_log, tick_ops, wall, mono, restarts, tmp_files>>

\* time passes, for MaxWall ticks at most; the loop body itself takes less
\* than MaxBodyTicks + 1 ticks
Advance ==
    /\ mono < MaxWall
    /\ pc # "sleep"
    /\ pc = "tick" => wall - snapshot.now_wall < MaxBodyTicks
    /\ wall' = wall + 1
    /\ mono' = mono + 1
    /\ UNCHANGED <<manager, last, snapshot, config, store, result, pc, current_day,
                   current_state, last_heartbeat_mono, provider_mode_logged, journal,
                   tick_log, tick_ops, queue, sleep_events, restarts, tmp_files>>

\* KeyboardInterrupt (SIGINT): one more journal write, provider.close() in
\* the finally clause, then the process is gone
Interrupt ==
    /\ pc \in {"poll", "tick", "sleep"}
    /\ journal' = IF current_day # NoneT
                  THEN write_day_atomic(journal, current_day, config, manager, wall, wall)
                  ELSE journal
    /\ FreshLocals
    /\ pc' = "stopped"
    /\ UNCHANGED <<last, config, store, result, wall, mono, sleep_events, restarts, tmp_files>>

\* SIGTERM: main() installs no handler, so the default disposition ends the
\* process at once; neither the except clause nor the finally clause runs
Terminate ==
    /\ pc \in {"poll", "tick", "sleep"}
    /\ FreshLocals
    /\ pc' = "terminated"
    /\ UNCHANGED <<last, config, store, result, journal, wall, mono, sleep_events, restarts, tmp_files>>

\* SIGKILL or power loss: nothing is written
Kill ==
    /\ pc \in {"poll", "tick", "sleep"}
    /\ FreshLocals
    /\ pc' = "killed"
    /\ UNCHANGED <<last, config, store, result, journal, wall, mono, sleep_events, restarts, tmp_files>>

\* the program is started again, later
Restart ==
    /\ pc \in {"stopped", "terminated", "killed"}
    /\ restarts < MaxRestarts
    /\ mono < MaxWall
    /\ wall' = wall + 1
    /\ mono' = mono + 1
    /\ restarts' = restarts + 1
    /\ pc' = "poll"
    /\ UNCHANGED <<manager, last, snapshot, config, store, result, current_day, current_state,
                   last_heartbeat_mono, provider_mode_logged, journal, tick_log, tick_ops, queue,
                   sleep_events, tmp_files>>

DriverConfigs ==
    [threshold_seconds : 1..MaxThreshold, treat_inhibitor_as_activity : BOOLEAN,
     journal_heartbeat_seconds : {1}]

InitDriver ==
    /\ manager = BlockManager
    /\ last = NoCall
    /\ result = "none"
    /\ snapshot = NoSnapshot
    /\ config \in DriverConfigs
    /\ pc = "poll"
    /\ current_day = NoneT
    /\ current_state = NoState
    /\ last_heartbeat_mono = NoneT
    /\ provider_mode_logged = FALSE
    /\ journal = [d \in Days |-> None]
    /\ tmp_files = [d \in Days |-> None]
    /\ tick_log = <<>>
    /\ tick_ops = <<>>
    /\ queue = <<>>
    /\ wall = 0
    /\ mono = 0
    /\ sleep_events = 0
    /\ restarts = 0
    /\ StoreUnused

NextDriver ==
    \/ GetSnapshot
    \/ ProcessTick
    \/ Sleep
    \/ \E kind \in {SUSPEND, RESUME} : Listener(kind)
    \/ Advance
    \/ Interrupt
    \/ Terminate
    \/ Kill
    \/ Restart

SpecDriver == InitDriver /\ [][NextDriver]_vars

\* ------------------------- SpecMidnight: the poll loop around a midnight
\* The same loop, started one second before the first midnight.
InitMidnight ==
    /\ manager = BlockManager
    /\ last = NoCall
    /\ result = "none"
    /\ snapshot = NoSnapshot
    /\ config \in DriverConfigs
    /\ pc = "poll"
    /\ current_day = NoneT
    /\ current_state = NoState
    /\ last_heartbeat_mono = NoneT
    /\ provider_mode_logged = FALSE
    /\ journal = [d \in Days |-> None]
    /\ tmp_files = [d \in Days |-> None]
    /\ tick_log = <<>>
    /\ tick_ops = <<>>
    /\ queue = <<>>
    /\ wall = Midnight(1) - TicksPerSecond
    /\ mono = 0
    /\ sleep_events = 0
    /\ restarts = 0
    /\ StoreUnused

SpecMidnight == InitMidnight /\ [][NextDriver]_vars

\* ------------------- SpecGap: the poll loop across a gap between ticks
\* The loop alone, without signals and sleep events, on a machine that can
\* be suspended while the loop is in time.sleep: the wall clock then jumps
\* by a day and the monotonic clock stands still.
Suspended ==
    /\ pc = "poll"
    /\ snapshot.now_wall # NoneT
    /\ Date(wall + DayTicks) \in Days
    /\ wall' = wall + DayTicks
    /\ UNCHANGED <<manager, last, snapshot, config, store, result, pc, current_day,
                   current_state, last_heartbeat_mono, provider_mode_logged, journal,
                   tick_log, tick_ops, queue, mono, sleep_events, restarts, tmp_files>>

NextGap == GetSnapshot \/ ProcessTick \/ Sleep \/ Advance \/ Suspended

SpecGap == InitMidnight /\ [][NextGap]_vars

\* ------------------------- SpecJournal: write_day_atomic and load_day
\* A manager of any closed blocks and any open block is written step by
\* step; the write can fail or the process can die at every step; load_day
\* reads the day back as run.main() does at its first tick.  last holds
\* the write at hand: the file it found (previous), the document (text),
\* the manager it serialises (written), the clock it read (now_wall) and,
\* once the day is read back, how the write had ended (after).
DocStamp == 0..MaxDocStamp

DocBlocks == {Block(type, start, end) : type \in State, start \in DocStamp, end \in DocStamp}

DocManagers ==
    [blocks : UNION {[1..n -> DocBlocks] : n \in 0..MaxDocBlocks},
     current_block : {None} \cup {Some(Block(type, start, NoneT)) :
                                      type \in State, start \in DocStamp}]

JournalConfig == [NoConfig EXCEPT !.threshold_seconds = 1]

Files == [journal |-> journal, tmp |-> tmp_files]

SetFiles(fs) == journal' = fs.journal /\ tmp_files' = fs.tmp

JournalFrame ==
    UNCHANGED <<snapshot, config, store, result, current_day, current_state, last_heartbeat_mono,
                provider_mode_logged, tick_log, tick_ops, queue, wall, mono, sleep_events, restarts>>

\* lines 85-115: the document is built and the .tmp file opened; the clock
\* is read at line 88 and again, inside get_totals, at line 95, where it can
\* have moved on by MaxReadGap ticks at most
OpenTmp ==
    /\ pc = "idle"
    /\ \E gap \in 0..MaxReadGap :
           last' = [op |-> "write_day", previous |-> journal[Date(wall)],
                    text |-> day_payload(Date(wall), config, manager, wall, wall + gap),
                    written |-> manager, now_wall |-> wall, after |-> "none"]
    /\ SetFiles(open_w(Files, Date(wall)))
    /\ pc' = "opened"
    /\ UNCHANGED manager
    /\ JournalFrame

\* lines 116-119: write, flush, fsync and close
WriteTmp ==
    /\ pc = "opened"
    /\ SetFiles(write_fsync(Files, Date(wall), last.text))
    /\ pc' = "written"
    /\ UNCHANGED <<manager, last>>
    /\ JournalFrame

\* line 121: os.replace, and the call returns
Replace ==
    /\ pc = "written"
    /\ SetFiles(os_replace(Files, Date(wall)))
    /\ pc' = "idle"
    /\ last' = [last EXCEPT !.op = "written"]
    /\ UNCHANGED manager
    /\ JournalFrame

\* an OSError at the step at hand: nothing catches it, the caller gets it
WriteError ==
    /\ pc \in {"opened", "written"}
    /\ pc' = "idle"
    /\ last' = [last EXCEPT !.op = "write_error"]
    /\ UNCHANGED <<manager, journal, tmp_files>>
    /\ JournalFrame

\* the process dies at the step at hand; its memory is gone
Crash ==
    /\ pc \in {"opened", "written"}
    /\ pc' = "idle"
    /\ last' = [last EXCEPT !.op = "crashed"]
    /\ manager' = BlockManager
    /\ UNCHANGED <<journal, tmp_files>>
    /\ JournalFrame

\* load_day(day) or BlockManager(), as the first tick of run.main() has it
LoadDay ==
    /\ pc = "idle"
    /\ last.op \in {"written", "write_error", "crashed"}
    /\ load_day_outcome(journal, Date(wall)) # "raise"
    /\ manager' = StartDay([Locals EXCEPT !.current_day = NoneT],
                           [NoSnapshot EXCEPT !.now_wall = wall, !.now_mono = mono]
                          ).block_manager
    /\ last' = [last EXCEPT !.op = "load_day", !.after = last.op]
    /\ UNCHANGED <<pc, journal, tmp_files>>
    /\ JournalFrame

InitJournal ==
    /\ manager \in DocManagers
    /\ last = NoCall
    /\ snapshot = NoSnapshot
    /\ config = JournalConfig
    /\ result = "none"
    /\ pc = "idle"
    /\ current_day = NoneT
    /\ current_state = NoState
    /\ last_heartbeat_mono = NoneT
    /\ provider_mode_logged = FALSE
    /\ journal = [d \in Days |-> None]
    /\ tmp_files = [d \in Days |-> None]
    /\ tick_log = <<>>
    /\ tick_ops = <<>>
    /\ queue = <<>>
    /\ wall = MaxDocStamp
    /\ mono = 0
    /\ sleep_events = 0
    /\ restarts = 0
    /\ StoreUnused

NextJournal == OpenTmp \/ WriteTmp \/ Replace \/ WriteError \/ Crash \/ LoadDay

SpecJournal == InitJournal /\ [][NextJournal]_vars

\* ------------------------------- SpecLoad: load_day on any file content
\* The day's file is missing, unreadable, no UTF-8, no JSON, JSON that is no
\* object, an object without a list of blocks, or an object whose block
\* records miss or garble their fields; the first tick of run.main() loads
\* it.
RawStamps == {None, Some(NotIso)} \cup {Some(isoformat(t)) : t \in DocStamp}

RawItems ==
    [json : {"object"}, type : State \cup {"nap", "missing"},
     start : RawStamps, end : RawStamps, open : BOOLEAN]
        \cup {[json |-> "string"]}

RawFiles ==
    {None}
        \cup {Some([form |-> f]) : f \in {"unreadable", "undecodable", "invalid_json", "array"}}
        \cup {Some([form |-> "object", blocks_json |-> b]) : b \in {"missing", "other"}}
        \cup {Some([form |-> "object", blocks_json |-> "list", blocks |-> items]) :
                 items \in UNION {[1..n -> RawItems] : n \in 0..MaxRecords}}

LoadFrame ==
    UNCHANGED <<snapshot, config, store, result, current_day, current_state, last_heartbeat_mono,
                provider_mode_logged, journal, tmp_files, tick_log, tick_ops, queue, wall, mono,
                sleep_events, restarts>>

\* run.py:62-68 when load_day returns: the manager loaded, or a fresh one
LoadReturns ==
    /\ pc = "idle"
    /\ load_day_outcome(journal, Date(wall)) # "raise"
    /\ manager' = StartDay([Locals EXCEPT !.current_day = NoneT],
                           [NoSnapshot EXCEPT !.now_wall = wall, !.now_mono = mono]
                          ).block_manager
    /\ last' = [op |-> "load_day", outcome |-> load_day_outcome(journal, Date(wall))]
    /\ pc' = "loaded"
    /\ LoadFrame

\* the exception of load_day leaves main(): no handler but the finally clause
LoadRaises ==
    /\ pc = "idle"
    /\ load_day_outcome(journal, Date(wall)) = "raise"
    /\ last' = [op |-> "load_day", outcome |-> "raise"]
    /\ pc' = "raised"
    /\ UNCHANGED manager
    /\ LoadFrame

InitLoad ==
    /\ manager = BlockManager
    /\ last = NoCall
    /\ snapshot = NoSnapshot
    /\ config = JournalConfig
    /\ result = "none"
    /\ pc = "idle"
    /\ current_day = NoneT
    /\ current_state = NoState
    /\ last_heartbeat_mono = NoneT
    /\ provider_mode_logged = FALSE
    /\ \E file \in RawFiles :
           journal = [d \in Days |-> IF d = Date(MaxDocStamp) THEN file ELSE None]
    /\ tmp_files = [d \in Days |-> None]
    /\ tick_log = <<>>
    /\ tick_ops = <<>>
    /\ queue = <<>>
    /\ wall = MaxDocStamp
    /\ mono = 0
    /\ sleep_events = 0
    /\ restarts = 0
    /\ StoreUnused

NextLoad == LoadReturns \/ LoadRaises

SpecLoad == InitLoad /\ [][NextLoad]_vars

\* ------------------------------------------------- config.toml and Config
DEFAULT_THRESHOLD_SECONDS == 300
DEFAULT_POLL_SECONDS == 2
DEFAULT_JOURNAL_HEARTBEAT_SECONDS == 30
\* the guardrail of load_config: max(int(heartbeat), 30)
HeartbeatFloor == 30

\* Config(): poll_seconds is a float, kept in ticks
Config ==
    [threshold_seconds |-> DEFAULT_THRESHOLD_SECONDS,
     treat_inhibitor_as_activity |-> TRUE,
     poll_seconds |-> DEFAULT_POLL_SECONDS * TicksPerSecond,
     journal_heartbeat_seconds |-> DEFAULT_JOURNAL_HEARTBEAT_SECONDS]

\* A TOML value: its type and its number (an integer as it stands, a float
\* in ticks, a boolean as 0 or 1); a key that is not in the file is absent.
Toml(ty, v) == [ty |-> ty, v |-> v]
TomlAbsent == Toml("absent", 0)

\* isinstance(x, int): bool is a subclass of int
isinstance_int(x) == x.ty \in {"int", "bool"}
isinstance_int_float(x) == x.ty \in {"int", "bool", "float"}
isinstance_bool(x) == x.ty = "bool"
\* float(x), in ticks
float(x) == IF x.ty = "float" THEN x.v ELSE x.v * TicksPerSecond

\* how load_config ends: "return" or "raise".  A missing file is first
\* created from default_config_toml(), which reads cfg.daily_target_minutes,
\* an attribute Config does not have (AttributeError); bytes that are not
\* UTF-8 make read_text raise UnicodeDecodeError, which is not caught.
load_config_outcome(file, create_if_missing) ==
    IF file.form = "missing" THEN (IF create_if_missing THEN "raise" ELSE "return")
    ELSE IF file.form = "undecodable" THEN "raise"
    ELSE "return"

\* mutant: the heartbeat of the file is taken as it stands
load_config_NoFloor(file, create_if_missing) ==
    IF file.form = "missing"
    THEN [cfg |-> Config, meta |-> [loaded |-> FALSE, created |-> FALSE, error |-> "none"]]
    ELSE IF file.form \in {"unreadable", "invalid_toml"}
    THEN [cfg |-> Config,
          meta |-> [loaded |-> FALSE, created |-> FALSE, error |-> "config_read_error"]]
    ELSE [cfg |->
            [threshold_seconds |->
                 IF isinstance_int(file.threshold_seconds)
                 THEN file.threshold_seconds.v ELSE Config.threshold_seconds,
             poll_seconds |->
                 IF isinstance_int_float(file.poll_seconds)
                 THEN float(file.poll_seconds) ELSE Config.poll_seconds,
             journal_heartbeat_seconds |->
                 IF isinstance_int(file.journal_heartbeat_seconds)
                 THEN file.journal_heartbeat_seconds.v
                 ELSE Config.journal_heartbeat_seconds,
             treat_inhibitor_as_activity |->
                 IF isinstance_bool(file.treat_inhibitor_as_activity)
                 THEN file.treat_inhibitor_as_activity.v = 1
                 ELSE Config.treat_inhibitor_as_activity],
          meta |-> [loaded |-> TRUE, created |-> FALSE, error |-> "none"]]

\* (Config, meta) of a call that returns
load_config(file, create_if_missing) ==
    IF file.form = "missing"
    THEN [cfg |-> Config, meta |-> [loaded |-> FALSE, created |-> FALSE, error |-> "none"]]
    ELSE IF file.form \in {"unreadable", "invalid_toml"}
    THEN [cfg |-> Config,
          meta |-> [loaded |-> FALSE, created |-> FALSE, error |-> "config_read_error"]]
    ELSE [cfg |->
            [threshold_seconds |->
                 IF isinstance_int(file.threshold_seconds)
                 THEN file.threshold_seconds.v ELSE Config.threshold_seconds,
             poll_seconds |->
                 IF isinstance_int_float(file.poll_seconds)
                 THEN float(file.poll_seconds) ELSE Config.poll_seconds,
             journal_heartbeat_seconds |->
                 IF isinstance_int(file.journal_heartbeat_seconds)
                 THEN Max(file.journal_heartbeat_seconds.v, HeartbeatFloor)
                 ELSE Config.journal_heartbeat_seconds,
             treat_inhibitor_as_activity |->
                 IF isinstance_bool(file.treat_inhibitor_as_activity)
                 THEN file.treat_inhibitor_as_activity.v = 1
                 ELSE Config.treat_inhibitor_as_activity],
          meta |-> [loaded |-> TRUE, created |-> FALSE, error |-> "none"]]

\* _validate_config raises ValueError
validate_config_raises(cfg) == cfg.threshold_seconds <= 0 \/ cfg.poll_seconds <= 0

\* --------------------- SpecConfig: load_config and the start of run.main()
\* config.toml holds anything: no file, bytes that cannot be read or decoded,
\* text that is no TOML, or a table whose four keys are absent or hold a
\* value of any type.  last holds the call of load_config and how it ended.
Near(r) == (r - MaxOffset)..(r + MaxOffset)

TomlBools == {Toml("bool", 0), Toml("bool", 1)}
TomlOthers == {TomlAbsent, Toml("str", 0)}

ThresholdValues ==
    TomlOthers \cup TomlBools \cup {Toml("float", TicksPerSecond)}
    \cup {Toml("int", v) : v \in Near(0) \cup Near(DEFAULT_THRESHOLD_SECONDS)}

PollValues ==
    TomlOthers \cup TomlBools
    \cup {Toml("int", v) : v \in Near(0)}
    \cup {Toml("float", v) : v \in Near(0) \cup Near(DEFAULT_POLL_SECONDS * TicksPerSecond)}

HeartbeatValues ==
    TomlOthers \cup TomlBools \cup {Toml("float", HeartbeatFloor * TicksPerSecond)}
    \cup {Toml("int", v) : v \in Near(0) \cup Near(HeartbeatFloor)}

TreatValues == TomlOthers \cup TomlBools \cup {Toml("int", 1)}

ConfigFile(form, threshold, poll, heartbeat, treat) ==
    [form |-> form, threshold_seconds |-> threshold, poll_seconds |-> poll,
     journal_heartbeat_seconds |-> heartbeat, treat_inhibitor_as_activity |-> treat]

ConfigFiles ==
    {ConfigFile(form, TomlAbsent, TomlAbsent, TomlAbsent, TomlAbsent) :
         form \in {"missing", "unreadable", "undecodable", "invalid_toml"}}
    \cup {ConfigFile("table", threshold, poll, heartbeat, treat) :
              threshold \in ThresholdValues, poll \in PollValues,
              heartbeat \in HeartbeatValues, treat \in TreatValues}

ConfigFrame ==
    UNCHANGED <<manager, snapshot, result, current_day, current_state,
                last_heartbeat_mono, provider_mode_logged, journal, tmp_files, tick_log, tick_ops,
                queue, wall, mono, sleep_events, restarts, config_file, log_files,
                drain_events>>

\* load_config returns: run.main() with create_if_missing, the status
\* command without
LoadConfig(create_if_missing) ==
    /\ pc = "start"
    /\ load_config_outcome(config_file, create_if_missing) = "return"
    /\ config' = load_config(config_file, create_if_missing).cfg
    /\ meta' = load_config(config_file, create_if_missing).meta
    /\ last' = [op |-> "load_config", create_if_missing |-> create_if_missing,
                outcome |-> "return"]
    /\ pc' = "loaded"
    /\ ConfigFrame

\* load_config raises: nothing in run.main() catches it
LoadConfigRaises(create_if_missing) ==
    /\ pc = "start"
    /\ load_config_outcome(config_file, create_if_missing) = "raise"
    /\ last' = [op |-> "load_config", create_if_missing |-> create_if_missing,
                outcome |-> "raise"]
    /\ pc' = "aborted"
    /\ UNCHANGED <<config, meta>>
    /\ ConfigFrame

\* run.py line 32, and the loop that follows it
ValidateConfig ==
    /\ pc = "loaded"
    /\ last.create_if_missing
    /\ pc' = IF validate_config_raises(config) THEN "aborted" ELSE "running"
    /\ UNCHANGED <<last, config, meta>>
    /\ ConfigFrame

InitConfig ==
    /\ ManagerUnused
    /\ ClassifierUnused
    /\ pc = "start"
    /\ current_day = NoneT
    /\ current_state = NoState
    /\ last_heartbeat_mono = NoneT
    /\ provider_mode_logged = FALSE
    /\ journal = <<>>
    /\ tmp_files = <<>>
    /\ tick_log = <<>>
    /\ tick_ops = <<>>
    /\ queue = <<>>
    /\ wall = 0
    /\ mono = 0
    /\ sleep_events = 0
    /\ restarts = 0
    /\ config_file \in ConfigFiles
    /\ meta = <<>>
    /\ log_files = <<>>
    /\ drain_events = <<>>

NextConfig ==
    \/ \E create_if_missing \in BOOLEAN : LoadConfig(create_if_missing)
    \/ \E create_if_missing \in BOOLEAN : LoadConfigRaises(create_if_missing)
    \/ ValidateConfig

SpecConfig == InitConfig /\ [][NextConfig]_vars

\* ---------------------------------------------------- TransitionLogger
\* A log file is its complete lines, in order, and what follows the last
\* newline: nothing, or the fragment that a write cut short left there.
NoLogFile == [exists |-> FALSE, lines |-> <<>>, fragment |-> FALSE]

\* json.dumps({"ts": when.isoformat(), **event}) and the newline
LogLine(when, event) == [json |-> "object", ts |-> isoformat(when), event |-> event]

\* a line that is no JSON object: a fragment and the text written after it
CorruptLine == [json |-> "invalid_json", ts |-> NotIso, event |-> "none"]

\* open(path, "a"): the file is created when it is not there, never truncated
open_a(file) == [file EXCEPT !.exists = TRUE]

\* write, write, flush, fsync: the bytes go after the last byte of the file
write_line(file, line) ==
    IF file.fragment
    THEN [file EXCEPT !.lines = Append(file.lines, CorruptLine), !.fragment = FALSE]
    ELSE [file EXCEPT !.lines = Append(file.lines, line)]

\* TransitionLogger.append: the file of the day of `when` gets the line
append(files, when, event) ==
    [files EXCEPT ![Date(when)] = write_line(open_a(files[Date(when)]), LogLine(when, event))]

\* the bytes of a write that was cut short: none, or a part without newline
torn_write(file, part) ==
    IF part THEN [file EXCEPT !.fragment = TRUE] ELSE file

\* -------------------------- SpecLog: TransitionLogger.append and crashes
\* Events are appended as the wall clock goes on; an append can be cut short
\* by a crash, after which the program is started again and appends on.
\* last holds the latest call.
LogEvents == {"start", "transition"}
LogDays == 0..MaxLogDay

LogFrame ==
    UNCHANGED <<manager, snapshot, config, result, pc, current_day, current_state,
                last_heartbeat_mono, provider_mode_logged, journal, tmp_files, tick_log, tick_ops,
                queue, mono, sleep_events, restarts, config_file, meta, drain_events>>

CallAppend(event) ==
    /\ Len(log_files[Date(wall)].lines) < MaxLogLines
    /\ log_files' = append(log_files, wall, event)
    /\ last' = [op |-> "append", when |-> wall, event |-> event]
    /\ UNCHANGED wall
    /\ LogFrame

\* the process dies inside append, after open and before fsync returns
CrashInAppend(event, part) ==
    /\ Len(log_files[Date(wall)].lines) < MaxLogLines
    /\ ~log_files[Date(wall)].fragment
    /\ log_files' = [log_files EXCEPT
                         ![Date(wall)] = torn_write(open_a(log_files[Date(wall)]), part)]
    /\ last' = [op |-> "crash", when |-> wall, event |-> event]
    /\ UNCHANGED wall
    /\ LogFrame

\* time passes, within the day or to the next midnight
LogClock ==
    /\ \E t \in {wall + 1, Midnight(Date(wall) + 1)} :
           /\ Date(t) <= MaxLogDay
           /\ wall' = t
    /\ UNCHANGED <<last, log_files>>
    /\ LogFrame

InitLog ==
    /\ ManagerUnused
    /\ ClassifierUnused
    /\ pc = "none"
    /\ current_day = NoneT
    /\ current_state = NoState
    /\ last_heartbeat_mono = NoneT
    /\ provider_mode_logged = FALSE
    /\ journal = <<>>
    /\ tmp_files = <<>>
    /\ tick_log = <<>>
    /\ tick_ops = <<>>
    /\ queue = <<>>
    /\ wall = 0
    /\ mono = 0
    /\ sleep_events = 0
    /\ restarts = 0
    /\ config_file = <<>>
    /\ meta = <<>>
    /\ log_files = [d \in LogDays |-> NoLogFile]
    /\ drain_events = <<>>

NextLog ==
    \/ \E event \in LogEvents : CallAppend(event)
    \/ \E event \in LogEvents, part \in BOOLEAN : CrashInAppend(event, part)
    \/ LogClock

SpecLog == InitLog /\ [][NextLog]_vars

\* ------------------------------------------------ SleepWatcher._queue
SleepEvent(kind, when) == [kind |-> kind, when |-> when]

\* Queue.put on an unbounded queue: the item goes to the end
put(q, item) == Append(q, item)

\* mutant: the newest item is taken first
get_nowait_Lifo(q) == [item |-> q[Len(q)], queue |-> SubSeq(q, 1, Len(q) - 1)]

\* Queue.get_nowait on a queue that is not empty: the oldest item
get_nowait(q) == [item |-> Head(q), queue |-> Tail(q)]

\* ----------------- SpecQueue: the listener thread and drain(), interleaved
\* The handler puts events whenever the bus delivers them; the poll loop
\* calls drain(), whose loop takes one item per step, so that a put can
\* fall between any two steps.  last holds every event put so far
\* (enqueued), every event a drain has returned so far (returned) and the
\* list the latest drain returned (result).
QueueFrame ==
    UNCHANGED <<manager, snapshot, config, result, current_day, current_state,
                last_heartbeat_mono, provider_mode_logged, journal, tmp_files, tick_log, tick_ops,
                mono, sleep_events, restarts, config_file, meta, log_files>>

\* handler(sleeping), on the listener thread
Put(kind) ==
    /\ Len(last.enqueued) < MaxPuts
    /\ queue' = put(queue, SleepEvent(kind, wall))
    /\ last' = [last EXCEPT !.op = "put",
                            !.enqueued = Append(@, SleepEvent(kind, wall))]
    /\ UNCHANGED <<pc, wall, drain_events>>
    /\ QueueFrame

\* drain() is called: events = []
DrainStart ==
    /\ pc = "poll"
    /\ pc' = "drain"
    /\ drain_events' = <<>>
    /\ UNCHANGED <<last, queue, wall>>
    /\ QueueFrame

\* events.append(self._queue.get_nowait())
DrainGet ==
    /\ pc = "drain"
    /\ queue # <<>>
    /\ drain_events' = Append(drain_events, get_nowait(queue).item)
    /\ queue' = get_nowait(queue).queue
    /\ UNCHANGED <<last, pc, wall>>
    /\ QueueFrame

\* get_nowait raises Empty: break, return events
DrainReturn ==
    /\ pc = "drain"
    /\ queue = <<>>
    /\ last' = [last EXCEPT !.op = "drain", !.returned = @ \o drain_events,
                            !.result = drain_events]
    /\ drain_events' = <<>>
    /\ pc' = "poll"
    /\ UNCHANGED <<queue, wall>>
    /\ QueueFrame

QueueClock ==
    /\ wall < MaxPuts
    /\ wall' = wall + 1
    /\ UNCHANGED <<last, pc, queue, drain_events>>
    /\ QueueFrame

InitQueue ==
    /\ manager = BlockManager
    /\ last = [op |-> "none", enqueued |-> <<>>, returned |-> <<>>, result |-> <<>>]
    /\ ClassifierUnused
    /\ pc = "poll"
    /\ current_day = NoneT
    /\ current_state = NoState
    /\ last_heartbeat_mono = NoneT
    /\ provider_mode_logged = FALSE
    /\ journal = <<>>
    /\ tmp_files = <<>>
    /\ tick_log = <<>>
    /\ tick_ops = <<>>
    /\ queue = <<>>
    /\ wall = 0
    /\ mono = 0
    /\ sleep_events = 0
    /\ restarts = 0
    /\ config_file = <<>>
    /\ meta = <<>>
    /\ log_files = <<>>
    /\ drain_events = <<>>

NextQueue ==
    \/ \E kind \in {SUSPEND, RESUME} : Put(kind)
    \/ DrainStart
    \/ DrainGet
    \/ DrainReturn
    \/ QueueClock

SpecQueue == InitQueue /\ [][NextQueue]_vars

\* ------------- SpecSleep: one tick in two steps, the drain and the poll
\* A process at its first tick, or one that tracks a state with its open
\* block, has taken a snapshot and finds any queue of sleep events, stamped
\* in arrival order before or after the snapshot.  The tick is taken in two
\* steps: lines 62-100 (first-tick setup and the drained events), then the
\* rest of the loop body.
SleepQueues ==
    {q \in UNION {[1..n -> {SleepEvent(kind, when) :
                               kind \in {SUSPEND, RESUME}, when \in Stamp}] :
                      n \in 0..MaxDrain} :
        \A i \in 1..(Len(q) - 1) : q[i].when <= q[i + 1].when}

TickLocals == [Locals EXCEPT !.log = tick_log, !.ops = tick_ops]

SleepFrame ==
    UNCHANGED <<last, snapshot, config, store, result, wall, mono, sleep_events,
                restarts, tmp_files>>

\* lines 62-100
DrainQueue ==
    /\ pc = "tick"
    /\ SetLocals(DrainEvents(StartDay(TickLocals, snapshot), queue, snapshot, config,
                             [w |-> wall, wt |-> wall]))
    /\ queue' = <<>>
    /\ pc' = "drained"
    /\ SleepFrame

\* lines 102-216, up to time.sleep
Poll ==
    /\ pc = "drained"
    /\ \E idle \in (0..MaxIdle) \cup {NoneT}, locked \in OptBool :
           LET snap == [snapshot EXCEPT !.idle_seconds = idle, !.locked = locked]
               clk == [w |-> wall, wt |-> wall]
               moded == ProviderMode(TickLocals, snap)
               rolled == Rollover(moded, snap, config, clk)
               classified == ClassifyStep(rolled, snap, config, clk)
           IN  SetLocals(Heartbeat(classified, snap, config, clk))
    /\ pc' = "sleep"
    /\ UNCHANGED queue
    /\ SleepFrame

InitSleep ==
    /\ last = NoCall
    /\ result = "none"
    /\ config \in DriverConfigs
    /\ pc = "tick"
    /\ wall \in 1..MaxStamp
    /\ mono = wall
    /\ snapshot = [NoSnapshot EXCEPT !.now_wall = wall, !.now_mono = mono]
    /\ queue \in SleepQueues
    /\ \/ /\ manager = BlockManager
          /\ current_day = NoneT
          /\ current_state = NoState
          /\ last_heartbeat_mono = NoneT
          /\ provider_mode_logged = FALSE
          /\ journal = [d \in Days |-> None]
       \/ \E state \in State, start \in 0..wall :
             /\ manager = open_new(BlockManager, state, start)
             /\ current_day = Date(start)
             /\ current_state = state
             /\ last_heartbeat_mono = start
             /\ provider_mode_logged = TRUE
             /\ journal = write_day_atomic([d \in Days |-> None], Date(start), config,
                                           manager, start, start)
    /\ tmp_files = [d \in Days |-> None]
    /\ tick_log = <<>>
    /\ tick_ops = <<>>
    /\ sleep_events = 0
    /\ restarts = 0
    /\ StoreUnused

NextSleep == DrainQueue \/ Poll

SpecSleep == InitSleep /\ [][NextSleep]_vars

\* ------------------------------------- SpecTotals: get_totals on any manager
\* Any history of closed blocks and any open block, as transition,
\* close_current, open_new and load can leave them; get_totals is called at
\* any reading of the clock.
Managers ==
    [blocks : UNION {[1..n -> {Block(type, start, end) :
                                  type \in State, start \in Stamp, end \in Stamp}] :
                         n \in 0..MaxBlocks},
     current_block : {None} \cup {Some(Block(type, start, NoneT)) :
                                      type \in State, start \in Stamp}]

CallTotals(now) ==
    /\ last' = [op |-> "get_totals", now |-> now, totals |-> get_totals(manager, now),
                before |-> manager]
    /\ UNCHANGED <<manager, snapshot, config, store, result, driver>>

InitTotals ==
    manager \in Managers /\ last = NoCall /\ ClassifierUnused /\ DriverUnused

NextTotals == \E now \in Stamp : CallTotals(now)

SpecTotals == InitTotals /\ [][NextTotals]_vars

\* ===================================================================
\* Properties
\* ===================================================================
Chain(m) == m.blocks \o m.current_block

\* end - start of a block in ticks, the open block running until now
Elapsed(block, now) == (IF block.end # NoneT THEN block.end ELSE now) - block.start

RECURSIVE SumElapsed(_, _)
SumElapsed(seq, now) ==
    IF seq = <<>> THEN 0 ELSE Elapsed(Head(seq), now) + SumElapsed(Tail(seq), now)

TotalTicks(m, now) ==
    (get_totals(m, now).activity_seconds + get_totals(m, now).break_seconds)
        * TicksPerSecond

WholeNonNegative(m, now) ==
    \A i \in 1..Len(Chain(m)) :
        /\ Elapsed(Chain(m)[i], now) >= 0
        /\ Elapsed(Chain(m)[i], now) % TicksPerSecond = 0

NonNegative(m, now) == \A i \in 1..Len(Chain(m)) : Elapsed(Chain(m)[i], now) >= 0

\* C1 as stated: after transition calls on a fresh manager, the first at t0,
\* for every now >= t0 the closed durations plus the open block's elapsed
\* time are now - t0, and so is activity_seconds + break_seconds of
\* get_totals at now (read in whole seconds, the unit get_totals reports).
C1_CoverageAsStated ==
    last.op = "transition" =>
        \A now \in last.t0..MaxTime :
            /\ SumElapsed(Chain(manager), now) = now - last.t0
            /\ get_totals(manager, now).activity_seconds
                  + get_totals(manager, now).break_seconds = IntSeconds(now - last.t0)

\* C1 (amended): the durations end - start of the closed blocks plus
\* now - current.start are now - t0 exactly, for every now >= t0; get_totals
\* cuts each block to whole seconds and clamps a negative duration to 0, so
\* its sum is more than now - t0 less one second per block, at most now - t0
\* when no block runs backwards, and now - t0 when moreover every block lasts
\* a whole number of seconds.
C1_Coverage ==
    last.op = "transition" =>
        \A now \in last.t0..MaxTime :
            /\ SumElapsed(Chain(manager), now) = now - last.t0
            /\ TotalTicks(manager, now)
                 > (now - last.t0) - Len(Chain(manager)) * TicksPerSecond
            /\ NonNegative(manager, now) => TotalTicks(manager, now) <= now - last.t0
            /\ WholeNonNegative(manager, now) => TotalTicks(manager, now) = now - last.t0

\* a retroactive cut lies behind, two blocks are closed, and the open block
\* is read one whole second after its start
C1_Witness ==
    /\ last.op = "transition"
    /\ Len(manager.blocks) = 2
    /\ manager.blocks[1].end < manager.blocks[2].end
    /\ manager.blocks[1].start < manager.blocks[1].end
    /\ \E i \in 1..2 : Elapsed(manager.blocks[i], 0) % TicksPerSecond # 0
    /\ manager.current_block # None
    /\ manager.current_block[1].start + TicksPerSecond <= MaxTime

\* C2 as stated: after transition calls on a fresh manager the closed blocks
\* are ordered by start, do not overlap, each ends where the next starts,
\* and the open block starts where the last closed block ends.
C2_OrderedContiguous ==
    last.op = "transition" =>
        /\ \A i \in 1..(Len(manager.blocks) - 1) :
              /\ manager.blocks[i].start <= manager.blocks[i + 1].start
              /\ manager.blocks[i].end = manager.blocks[i + 1].start
        /\ \A i \in 1..Len(manager.blocks) : \A j \in (i + 1)..Len(manager.blocks) :
              manager.blocks[i].end <= manager.blocks[j].start
        /\ (manager.blocks # <<>> /\ manager.current_block # None) =>
              manager.current_block[1].start = manager.blocks[Len(manager.blocks)].end

\* C3 as stated: whatever timestamps transition, close_current and open_new
\* are given, every closed block has end >= start.
C3_EndNotBeforeStart ==
    \A i \in 1..Len(manager.blocks) : manager.blocks[i].end >= manager.blocks[i].start

\* C4 as stated: at most one block is open, it is the current block, every
\* block of the history has an end, and the open block starts no earlier
\* than any block of the history.
C4_OneOpenMostRecent ==
    /\ Len(manager.current_block) <= 1
    /\ \A i \in 1..Len(manager.blocks) : manager.blocks[i].end # NoneT
    /\ manager.current_block # None =>
          /\ manager.current_block[1].end = NoneT
          /\ \A i \in 1..Len(manager.blocks) :
                manager.current_block[1].start >= manager.blocks[i].start

\* C5: a transition to the state of the open block, with any timestamp and
\* any cut, changes neither the history nor the open block.
C5_SameStateNoOp ==
    [][(IF manager.current_block = None \/ last'.op # "transition" THEN FALSE
        ELSE manager.current_block[1].type = last'.new_state)
       => manager' = manager]_vars

\* a same-state call at a later time and with a cut, on a manager with history
C5_Witness ==
    /\ last.op = "transition"
    /\ last.prior # None
    /\ last.prior[1].type = last.new_state
    /\ last.now > last.prior[1].start
    /\ last.threshold_subtract # NoneT
    /\ manager.blocks # <<>>
    /\ manager.current_block = last.prior

\* C6: transition(BREAK, N, T) on an open ACTIVITY block started at S closes
\* it at min(max(T, S), N) and opens the BREAK block there, for every T.
C6_BoundaryClamp ==
    (IF last.op # "transition" THEN FALSE
     ELSE IF last.prior = None THEN FALSE
     ELSE /\ last.prior[1].type = ACTIVITY
          /\ last.new_state = BREAK
          /\ last.threshold_subtract # NoneT)
    => LET b == Min(Max(last.threshold_subtract, last.prior[1].start), last.now)
       IN  /\ manager.blocks # <<>>
           /\ manager.blocks[Len(manager.blocks)] =
                  Block(ACTIVITY, last.prior[1].start, b)
           /\ manager.current_block = Some(Block(BREAK, b, NoneT))

\* the cut lies before the block's start and is raised to it
C6_Witness ==
    /\ last.op = "transition"
    /\ last.prior # None
    /\ last.prior[1].type = ACTIVITY
    /\ last.new_state = BREAK
    /\ last.threshold_subtract # NoneT
    /\ last.threshold_subtract < last.prior[1].start
    /\ last.prior[1].start < last.now
    /\ manager.current_block = Some(Block(BREAK, last.prior[1].start, NoneT))

\* C7: a tick that finds ACTIVITY tracked and classifies BREAK with idle_seconds
\* known ends the ACTIVITY block and starts the BREAK block at
\* min(max(now - idle_seconds + threshold_seconds, block.start), now); with
\* idle_seconds unknown the boundary is now.
C7_RetroactiveBoundary ==
    pc = "sleep" =>
        \A i \in 1..Len(tick_log) :
            (IF tick_log[i].event # "transition" THEN FALSE
             ELSE tick_log[i].prev_state = ACTIVITY /\ tick_log[i].next_state = BREAK)
            => /\ manager.blocks # <<>>
               /\ LET closed == manager.blocks[Len(manager.blocks)]
                      now == tick_log[i].ts
                      idle == tick_log[i].idle_seconds
                      b == IF idle = NoneT THEN now
                           ELSE Min(Max(now - idle * TicksPerSecond
                                            + config.threshold_seconds * TicksPerSecond,
                                        closed.start), now)
                  IN  /\ now = snapshot.now_wall
                      /\ closed.type = ACTIVITY
                      /\ closed.end = b
                      /\ manager.current_block = Some(Block(BREAK, b, NoneT))

\* the cut falls inside the ACTIVITY block: it ends before the tick's time
C7_Witness ==
    /\ pc = "sleep"
    /\ tick_log # <<>>
    /\ LET e == tick_log[Len(tick_log)]
       IN  IF e.event # "transition" THEN FALSE
           ELSE /\ e.prev_state = ACTIVITY
                /\ e.next_state = BREAK
                /\ e.idle_seconds > config.threshold_seconds
                /\ manager.blocks # <<>>
                /\ LET closed == manager.blocks[Len(manager.blocks)]
                   IN  /\ closed.start < closed.end
                       /\ closed.end < e.ts
                       /\ closed.end = e.ts - (e.idle_seconds - config.threshold_seconds)
                                                  * TicksPerSecond
                       /\ manager.current_block = Some(Block(BREAK, closed.end, NoneT))

\* the first-match decision table of the classifier
TableSaysBreak(snap, cfg) ==
    \/ snap.locked = "True"
    \/ /\ snap.idle_seconds # NoneT
       /\ snap.idle_seconds > cfg.threshold_seconds
       /\ ~(cfg.treat_inhibitor_as_activity /\ snap.inhibited = "True")

\* C8: classify returns BREAK exactly when locked is true, or idle_seconds is
\* known, above the threshold and not excused by an inhibitor that counts as
\* activity; ACTIVITY in every other case.
C8_DecisionTable ==
    result # "pending" =>
        result = (IF TableSaysBreak(snapshot, config) THEN BREAK ELSE ACTIVITY)

\* idle exactly at the threshold, not locked: still ACTIVITY
C8_Witness ==
    /\ result = ACTIVITY
    /\ snapshot.locked = "False"
    /\ snapshot.idle_seconds = config.threshold_seconds
    /\ snapshot.inhibited = "False"
    /\ config.threshold_seconds > 0

\* C9: a locked snapshot classifies as BREAK whatever idle_seconds, inhibited
\* and the config are.
C9_LockPriority ==
    (result # "pending" /\ snapshot.locked = "True") => result = BREAK

\* locked with unknown idle time and an inhibitor that counts as activity
C9_Witness ==
    /\ result = BREAK
    /\ snapshot.locked = "True"
    /\ snapshot.idle_seconds = NoneT
    /\ snapshot.inhibited = "True"
    /\ config.treat_inhibitor_as_activity

\* C10: with idle_seconds unknown and locked not true, classify returns
\* ACTIVITY whatever inhibited and the config are.
C10_FailOpen ==
    (result # "pending" /\ snapshot.idle_seconds = NoneT /\ snapshot.locked # "True")
        => result = ACTIVITY

\* unknown idle and lock state, inhibitor not counted as activity
C10_Witness ==
    /\ result = ACTIVITY
    /\ snapshot.idle_seconds = NoneT
    /\ snapshot.locked = "None"
    /\ snapshot.inhibited = "False"
    /\ ~config.treat_inhibitor_as_activity

\* C11: for every threshold_seconds > 0, idle_seconds = threshold_seconds with
\* locked not true classifies as ACTIVITY, and idle_seconds =
\* threshold_seconds + 1 with inhibited false classifies as BREAK.
C11_InclusiveThreshold ==
    (result # "pending" /\ config.threshold_seconds > 0) =>
        /\ (snapshot.locked # "True"
               /\ snapshot.idle_seconds = config.threshold_seconds) => result = ACTIVITY
        /\ (snapshot.idle_seconds = config.threshold_seconds + 1
               /\ snapshot.inhibited = "False") => result = BREAK

\* one second above the threshold, unlocked, no inhibitor, although an
\* inhibitor would count as activity
C11_Witness ==
    /\ result = BREAK
    /\ config.threshold_seconds > 0
    /\ snapshot.idle_seconds = config.threshold_seconds + 1
    /\ snapshot.locked = "False"
    /\ snapshot.inhibited = "False"
    /\ config.treat_inhibitor_as_activity

\* the closed blocks a manager's document holds: its history, then its open
\* block ended at the checkpoint
Checkpointed(m, now_wall) ==
    m.blocks \o (IF m.current_block = None THEN <<>>
                 ELSE <<[m.current_block[1] EXCEPT !.end = now_wall]>>)

\* C12: load_day after a completed write_day of the same day gives a manager
\* whose history is the written manager's history, block for block and in
\* order, followed by the written open block (if any) closed at the
\* checkpoint; the loaded manager has no open block.
C12_RoundTrip ==
    (last.op = "load_day" /\ last.after = "written") =>
        /\ manager.current_block = None
        /\ manager.blocks = Checkpointed(last.written, last.now_wall)

\* two closed blocks of different types, a timestamp with a fraction of a
\* second, and an open block that comes back closed
C12_Witness ==
    /\ last.op = "load_day"
    /\ last.after = "written"
    /\ Len(last.written.blocks) = 2
    /\ last.written.blocks[1].type # last.written.blocks[2].type
    /\ last.written.blocks[1].start % TicksPerSecond # 0
    /\ last.written.current_block # None
    /\ Len(manager.blocks) = 3
    /\ manager.blocks[3].end = last.now_wall

\* the first tick of a process that was started again, on a day with a journal
FirstTickAfterRestart ==
    /\ pc = "tick"
    /\ pc' = "sleep"
    /\ current_day = NoneT
    /\ restarts > 0
    /\ journal[Date(snapshot.now_wall)] # None

Reloaded == load_day(journal, Date(snapshot.now_wall))[1].blocks

\* the SUSPEND events of a queue, in order
RECURSIVE Suspends(_)
Suspends(events) ==
    IF events = <<>> THEN <<>>
    ELSE IF Head(events).kind = SUSPEND THEN <<Head(events)>> \o Suspends(Tail(events))
    ELSE Suspends(Tail(events))

HasEntry(log, event) == \E i \in 1..Len(log) : log[i].event = event

DocumentBlocks(files, day) == load_day(files, day)[1].blocks

NoOverlap(blocks) ==
    \A i \in 1..Len(blocks) : \A j \in (i + 1)..Len(blocks) :
        blocks[i].end <= blocks[j].start

\* C14 as stated: the journal written by the first tick after a restart on
\* the same day holds no overlapping blocks (each block ends before every
\* later block starts), and the new open block starts at or after the end
\* of every reloaded block.
C14_NoDoubleCounting ==
    [][FirstTickAfterRestart =>
          /\ NoOverlap(DocumentBlocks(journal', Date(snapshot.now_wall)))
          /\ \A i \in 1..Len(Reloaded) :
                manager'.current_block[1].start >= Reloaded[i].end]_vars

\* the restart's own part: every block that the first tick after a restart
\* adds starts at or after the end of every reloaded block
RestartAddsNoOverlap ==
    [][FirstTickAfterRestart =>
          \A i \in 1..Len(Reloaded) :
              /\ manager'.current_block[1].start >= Reloaded[i].end
              /\ \A j \in (Len(Reloaded) + 1)..Len(manager'.blocks) :
                    manager'.blocks[j].start >= Reloaded[i].end]_vars

\* a document that load_day can turn into a manager: an object whose blocks
\* are a list of records with a State, an ISO start and an ISO or null end
WellFormed(file) ==
    IF file = None THEN FALSE
    ELSE IF file[1].form # "object" THEN FALSE
    ELSE IF file[1].blocks_json # "list" THEN FALSE
    ELSE \A i \in 1..Len(file[1].blocks) :
             IF file[1].blocks[i].json # "object" THEN FALSE
             ELSE /\ file[1].blocks[i].type \in State
                  /\ file[1].blocks[i].start \in {Some(isoformat(t)) : t \in DocStamp}
                  /\ file[1].blocks[i].end \in
                         {None} \cup {Some(isoformat(t)) : t \in DocStamp}

\* C15 as stated: load_day never raises, and for a file that is missing,
\* unreadable, no JSON or structurally invalid in any way it returns None,
\* after which the driver holds an empty manager.
C15_LoadNeverFails ==
    last.op = "load_day" =>
        /\ last.outcome # "raise"
        /\ ~WellFormed(journal[Date(wall)]) =>
              (last.outcome = "absent" /\ manager = BlockManager)

\* C16: at every point of write_day, also when it fails or the process dies
\* at a step, the journal path holds the complete document it held before
\* the write or the complete new one, never a partial text; until the rename
\* it is the previous one, and it still is after a failed or broken-off
\* write, whose error reaches the caller.
C16_AtomicWrite ==
    LET file == journal[Date(wall)] IN
    /\ IF file = None THEN TRUE ELSE WellFormed(file)
    /\ pc \in {"opened", "written"} => file = last.previous
    /\ last.op \in {"write_error", "crashed"} => file = last.previous
    /\ last.op = "written" => file = Some(last.text)
    /\ last.op = "load_day" => file \in {last.previous, Some(last.text)}
    /\ (last.op = "load_day" /\ last.after # "written") => file = last.previous

\* a write over an older, different document broke off with the .tmp file
\* half-written: the older document is still in place
C16_Witness ==
    /\ last.op = "crashed"
    /\ tmp_files[Date(wall)] = Some(Truncated)
    /\ last.previous # None
    /\ last.previous # Some(last.text)
    /\ journal[Date(wall)] = last.previous

\* a tick that finds a day and a state tracked and a snapshot of another day
RolloverTick ==
    /\ pc = "tick"
    /\ pc' = "sleep"
    /\ current_day # NoneT
    /\ current_state # NoState
    /\ Date(snapshot.now_wall) # current_day

\* the state tracked when the rollover runs: the tick's pending sleep events
\* have been applied by then
StateAtRollover == IF Suspends(queue) # <<>> THEN BREAK ELSE current_state

\* the old day's blocks once the rollover has closed the open block
ClosedAtMidnight ==
    LET midnight == Midnight(Date(snapshot.now_wall))
        cur == manager.current_block[1]
        suspends == Suspends(queue)
    IN  IF suspends # <<>> /\ current_state # BREAK
        THEN manager.blocks \o <<[cur EXCEPT !.end = suspends[1].when],
                                  Block(BREAK, suspends[1].when, midnight)>>
        ELSE Append(manager.blocks, [cur EXCEPT !.end = midnight])

NoOpenRecord(file) == \A i \in 1..Len(file[1].blocks) : ~file[1].blocks[i].open

\* C17: a tick whose snapshot is of another day than the tracked one, with a
\* state S tracked when the rollover runs, closes the open block at local
\* midnight of the new date and writes the old day's journal with it, logs
\* a rollover event (old day, new day, S) before any start or transition
\* event, and starts a manager whose first block is of type S and starts at
\* that midnight; the new day's journal is written; the block is still the
\* only one and open unless the same tick classified another state.
C17_Rollover ==
    [][RolloverTick =>
          LET new_day == Date(snapshot.now_wall)
              midnight == Midnight(new_day)
              S == StateAtRollover
          IN  /\ journal'[current_day] # None
              /\ DocumentBlocks(journal', current_day) = ClosedAtMidnight
              /\ \E i \in 1..Len(tick_log') :
                    /\ tick_log'[i] = [event |-> "rollover", ts |-> midnight,
                                       from |-> current_day, to |-> new_day, state |-> S]
                    /\ \A j \in 1..(i - 1) :
                          tick_log'[j].event \notin {"start", "transition"}
              /\ current_day' = new_day
              /\ IF current_state' = S
                 THEN manager' = open_new(BlockManager, S, midnight)
                 ELSE /\ Len(manager'.blocks) = 1
                      /\ manager'.blocks[1].type = S
                      /\ manager'.blocks[1].start = midnight
                      /\ manager'.current_block =
                             Some(Block(current_state', manager'.blocks[1].end, NoneT))
              /\ journal'[new_day] # None
              /\ DocumentBlocks(journal', new_day)[1].type = S
              /\ DocumentBlocks(journal', new_day)[1].start = midnight]_vars

\* ACTIVITY open since one second before midnight: the old day's journal ends
\* with [midnight - 1 s, midnight], 1 second, and the new day's journal is
\* one open ACTIVITY record from midnight
C17_Witness ==
    /\ pc = "sleep"
    /\ \E i \in 1..Len(tick_log) :
          IF tick_log[i].event # "rollover" THEN FALSE
          ELSE LET e == tick_log[i]
                   old == journal[e.from][1].blocks
                   new == journal[e.to][1].blocks
               IN  /\ e.state = ACTIVITY
                   /\ e.ts = Midnight(e.to)
                   /\ old[Len(old)].type = ACTIVITY
                   /\ old[Len(old)].start = Some(isoformat(e.ts - TicksPerSecond))
                   /\ old[Len(old)].end = Some(isoformat(e.ts))
                   /\ old[Len(old)].seconds = 1
                   /\ ~old[Len(old)].open
                   /\ Len(new) = 1
                   /\ new[1].type = ACTIVITY
                   /\ new[1].start = Some(isoformat(e.ts))
                   /\ new[1].open
                   /\ manager = open_new(BlockManager, ACTIVITY, e.ts)
                   /\ current_day = e.to

\* C18: the rollover leaves the old day's journal without an open record,
\* its last block ending at the rollover midnight; the running driver never
\* writes the journal of a day before the tracked one, and the tracked day
\* never goes back, so the old day's document and totals stay as they are.
C18_OldDayFinal ==
    [][/\ RolloverTick =>
             /\ journal'[current_day] # None
             /\ NoOpenRecord(journal'[current_day])
             /\ LET old == DocumentBlocks(journal', current_day)
                IN  old[Len(old)].end = Midnight(Date(snapshot.now_wall))
       /\ current_day # NoneT =>
             \A d \in Days : d < current_day => journal'[d] = journal[d]
       /\ (current_day # NoneT /\ current_day' # NoneT) => current_day' >= current_day]_vars

\* after the rollover a later tick has written the new day's journal again;
\* the old day's journal still ends at the midnight, without an open record
C18_Witness ==
    /\ pc = "sleep"
    /\ current_day = 1
    /\ snapshot.now_wall > Midnight(1)
    /\ journal[0] # None
    /\ journal[1] # None
    /\ NoOpenRecord(journal[0])
    /\ DocumentBlocks(journal, 0)[Len(DocumentBlocks(journal, 0))].end = Midnight(1)
    /\ DocumentBlocks(journal, 1)[1].start = Midnight(1)
    /\ Len(DocumentBlocks(journal, 1)) >= 2
    /\ ~HasEntry(tick_log, "rollover")
    /\ HasEntry(tick_log, "transition")
    /\ restarts = 0

\* the process is running (pc) and has ended by SIGINT or SIGTERM (pc')
Interrupted ==
    /\ pc \in {"poll", "tick", "sleep"}
    /\ pc' \in {"stopped", "terminated"}

\* C19 as stated: whenever the loop is interrupted, by KeyboardInterrupt or by
\* a termination signal, after the first tick has set day and manager, the
\* current day's journal is written once more from the manager before the
\* process is gone; and on every such exit the finally clause has closed
\* the provider (pc' = "stopped").
C19_FinalWrite ==
    [][Interrupted =>
          /\ pc' = "stopped"
          /\ current_day # NoneT =>
                journal'[current_day] =
                    Some(day_payload(current_day, config, manager, wall, wall))]_vars

\* the KeyboardInterrupt path alone: final write, then provider.close()
KeyboardInterruptWrites ==
    [][(pc \in {"poll", "tick", "sleep"} /\ pc' = "stopped" /\ current_day # NoneT) =>
          journal'[current_day] =
              Some(day_payload(current_day, config, manager, wall, wall))]_vars

\* the whole seconds of a block, negative ones counting as none
RECURSIVE SumWhole(_, _, _)
SumWhole(seq, type, now) ==
    IF seq = <<>> THEN 0
    ELSE SumWhole(SubSeq(seq, 1, Len(seq) - 1), type, now)
           + (IF seq[Len(seq)].type # type THEN 0
              ELSE IF Elapsed(seq[Len(seq)], now) < TicksPerSecond THEN 0
              ELSE Elapsed(seq[Len(seq)], now) \div TicksPerSecond)

\* the ticks of the blocks of a type, negative durations counting as none
RECURSIVE SumClamped(_, _, _)
SumClamped(seq, type, now) ==
    IF seq = <<>> THEN 0
    ELSE SumClamped(Tail(seq), type, now)
           + (IF Head(seq).type = type THEN Max(0, Elapsed(Head(seq), now)) ELSE 0)

\* C20 as stated: get_totals returns, for each type, the sum over the blocks
\* of that type of max(0, end - start), now being the end of the open block
\* (read in whole seconds, the unit of the result); both are >= 0, both are 0
\* for an empty manager, and the manager is unchanged.
C20_TotalsAsStated ==
    last.op = "get_totals" =>
        /\ last.totals.activity_seconds
              = IntSeconds(SumClamped(Chain(last.before), ACTIVITY, last.now))
        /\ last.totals.break_seconds
              = IntSeconds(SumClamped(Chain(last.before), BREAK, last.now))
        /\ last.totals.activity_seconds >= 0
        /\ last.totals.break_seconds >= 0
        /\ last.before = BlockManager =>
              last.totals = [activity_seconds |-> 0, break_seconds |-> 0]
        /\ manager = last.before

\* C20 (amended): get_totals returns, for each type, the sum over the blocks
\* of that type of max(0, int(seconds of end - start)): every block is cut to
\* whole seconds before it is added, now being the end of the open block.
\* Hence each value is at most the sum of max(0, end - start) and falls
\* short of it by less than one second per block of the type.  Both are
\* >= 0, both are 0 for an empty manager, and the manager is unchanged.
C20_Totals ==
    last.op = "get_totals" =>
        LET chain == Chain(last.before)
            a == last.totals.activity_seconds
            b == last.totals.break_seconds
        IN  /\ a = SumWhole(chain, ACTIVITY, last.now)
            /\ b = SumWhole(chain, BREAK, last.now)
            /\ a * TicksPerSecond <= SumClamped(chain, ACTIVITY, last.now)
            /\ b * TicksPerSecond <= SumClamped(chain, BREAK, last.now)
            /\ SumClamped(chain, ACTIVITY, last.now) + SumClamped(chain, BREAK, last.now)
                  - (a + b) * TicksPerSecond <= Len(chain) * (TicksPerSecond - 1)
            /\ a >= 0
            /\ b >= 0
            /\ last.before = BlockManager => (a = 0 /\ b = 0)
            /\ manager = last.before

\* a block that runs backwards next to a block of a whole second, and an open
\* block read a whole second after its start
C20_Witness ==
    /\ last.op = "get_totals"
    /\ Len(manager.blocks) = 2
    /\ manager.blocks[1].type = ACTIVITY
    /\ manager.blocks[1].end < manager.blocks[1].start
    /\ manager.blocks[2].type = ACTIVITY
    /\ manager.blocks[2].end = manager.blocks[2].start + TicksPerSecond
    /\ manager.current_block # None
    /\ manager.current_block[1].type = BREAK
    /\ last.now = manager.current_block[1].start + TicksPerSecond
    /\ last.totals = [activity_seconds |-> 1, break_seconds |-> 1]

\* C21: a transition between different states to which no retroactive cut
\* applies (BREAK -> ACTIVITY with or without a cut passed, ACTIVITY -> BREAK
\* with none passed) closes the open block at now, appends it as the last
\* element of the history, which grows by exactly that one block, and opens
\* a block of the new state at now.
C21_CutAtNow ==
    [][IF /\ last'.op = "transition"
          /\ last' # last
          /\ manager.current_block # None
       THEN LET cur == manager.current_block[1] IN
            (/\ cur.type # last'.new_state
             /\ (cur.type = BREAK \/ last'.threshold_subtract = NoneT))
            => /\ manager'.blocks =
                      Append(manager.blocks, [cur EXCEPT !.end = last'.now])
               /\ manager'.current_block =
                      Some(Block(last'.new_state, last'.now, NoneT))
       ELSE TRUE]_vars

\* a BREAK block was closed by a transition to ACTIVITY that carried a cut
\* earlier than now
C21_Witness ==
    /\ last.op = "transition"
    /\ last.prior # None
    /\ last.prior[1].type = BREAK
    /\ last.new_state = ACTIVITY
    /\ last.threshold_subtract # NoneT
    /\ last.threshold_subtract < last.now
    /\ last.threshold_subtract > last.prior[1].start
    /\ Len(manager.blocks) = 2
    /\ manager.blocks[2] = [last.prior[1] EXCEPT !.end = last.now]
    /\ manager.current_block = Some(Block(ACTIVITY, last.now, NoneT))

\* C22: transition on a manager without an open block opens a block of the
\* new state at now, with no end, whatever cut is passed, and leaves the
\* history as it was (empty for a fresh manager).
C22_FirstTransition ==
    (last.op = "transition" /\ last.before.current_block = None)
    => /\ manager.blocks = last.before.blocks
       /\ manager.current_block = Some(Block(last.new_state, last.now, NoneT))

\* the first transition on a manager with history, with a cut before now
C22_Witness ==
    /\ last.op = "transition"
    /\ last.before.current_block = None
    /\ last.before.blocks # <<>>
    /\ last.threshold_subtract # NoneT
    /\ last.threshold_subtract < last.now
    /\ manager.blocks = last.before.blocks
    /\ manager.current_block = Some(Block(last.new_state, last.now, NoneT))

\* C23: close_current(end) gives the open block the end passed, appends it
\* as the last element of the history (one element more, the earlier ones
\* unchanged) and leaves no open block; without an open block it changes
\* nothing.
C23_CloseCurrent ==
    last.op = "close_current"
    => IF last.before.current_block = None
       THEN manager = last.before
       ELSE /\ manager.blocks =
                   Append(last.before.blocks,
                          [last.before.current_block[1] EXCEPT !.end = last.end])
            /\ Len(manager.blocks) = Len(last.before.blocks) + 1
            /\ manager.current_block = None

\* an open block after a closed one was closed
C23_Witness ==
    /\ last.op = "close_current"
    /\ last.before.current_block # None
    /\ last.before.blocks # <<>>
    /\ Len(manager.blocks) = Len(last.before.blocks) + 1
    /\ manager.blocks[Len(manager.blocks)].end = last.end
    /\ manager.current_block = None

\* the records of a document that carry the open flag
OpenRecords(doc) == {i \in 1..Len(doc.blocks) : doc.blocks[i].open}

\* a record of the block given: its type, its start, an end that is not null
\* and seconds that are the whole seconds from start to end, or zero
RecordOf(rec, type, start, end) ==
    /\ rec.json = "object"
    /\ rec.type = type
    /\ rec.start = Some(isoformat(start))
    /\ rec.end = Some(isoformat(end))
    /\ rec.seconds \in Nat
    /\ rec.seconds = Max(0, IntSeconds(fromisoformat(rec.end[1]) - fromisoformat(rec.start[1])))

\* C24: the document a completed write_day leaves on disk records each
\* closed block of the manager in order without the open flag, then the open
\* block (if any) as the last record, flagged open, with a checkpoint end
\* that is the wall time of the write; at most one record is flagged open;
\* every record's seconds is a whole number >= 0, max(0, end - start).
C24_DocumentShape ==
    last.op = "written"
    => LET doc == journal[Date(wall)][1]
           m == last.written
           n == Len(m.blocks)
       IN  /\ doc.blocks_json = "list"
           /\ Len(doc.blocks) = n + Len(m.current_block)
           /\ \A i \in 1..n :
                  /\ RecordOf(doc.blocks[i], m.blocks[i].type, m.blocks[i].start,
                              m.blocks[i].end)
                  /\ ~doc.blocks[i].open
           /\ m.current_block # None
              => /\ RecordOf(doc.blocks[n + 1], m.current_block[1].type,
                             m.current_block[1].start, last.now_wall)
                 /\ doc.blocks[n + 1].open
           /\ Cardinality(OpenRecords(doc)) <= 1

\* a document of two closed blocks, one of them backwards (seconds clamped
\* to zero), and an open block checkpointed at the wall time of the write
C24_Witness ==
    /\ last.op = "written"
    /\ Len(last.written.blocks) = 2
    /\ last.written.blocks[1].end < last.written.blocks[1].start
    /\ last.written.current_block # None
    /\ Len(journal[Date(wall)][1].blocks) = 3
    /\ journal[Date(wall)][1].blocks[1].seconds = 0
    /\ journal[Date(wall)][1].blocks[3].open
    /\ journal[Date(wall)][1].blocks[3].end = Some(isoformat(last.now_wall))
    /\ OpenRecords(journal[Date(wall)][1]) = {3}

\* text that cannot be decoded or parsed
Unparseable(file) == file.form \in {"undecodable", "invalid_toml"}

\* a value of a type the key does not take, or a number the Config excludes
InvalidValues(file) ==
    /\ file.form = "table"
    /\ \/ file.threshold_seconds.ty \notin {"absent", "int"}
       \/ file.threshold_seconds.ty = "int" /\ file.threshold_seconds.v <= 0
       \/ file.poll_seconds.ty \notin {"absent", "int", "float"}
       \/ file.poll_seconds.ty \in {"int", "float"} /\ file.poll_seconds.v <= 0
       \/ file.journal_heartbeat_seconds.ty \notin {"absent", "int"}
       \/ file.treat_inhibitor_as_activity.ty \notin {"absent", "bool"}

\* C25: a configuration file that cannot be parsed or that carries invalid
\* values never aborts the startup of run.main(): load_config returns and
\* the run loop starts.
C25_NeverAborts ==
    (Unparseable(config_file) \/ InvalidValues(config_file)) => pc # "aborted"

\* C26: when load_config returns, an integer journal_heartbeat_seconds h of
\* the file is loaded as max(h, 30), every key that is absent keeps its
\* default (300, 2.0, 30, true), and the loaded heartbeat is >= 30 for every
\* content of the file.
C26_HeartbeatFloor ==
    (last.op = "load_config" /\ last.outcome = "return")
    => /\ config.journal_heartbeat_seconds >= 30
       /\ config_file.journal_heartbeat_seconds.ty = "int"
          => config.journal_heartbeat_seconds =
                 Max(config_file.journal_heartbeat_seconds.v, 30)
       /\ config_file.journal_heartbeat_seconds.ty = "absent"
          => config.journal_heartbeat_seconds = 30
       /\ config_file.threshold_seconds.ty = "absent"
          => config.threshold_seconds = 300
       /\ config_file.poll_seconds.ty = "absent"
          => config.poll_seconds = 2 * TicksPerSecond
       /\ config_file.treat_inhibitor_as_activity.ty = "absent"
          => config.treat_inhibitor_as_activity = TRUE

\* a file with a heartbeat below the floor and nothing else: the loop runs
\* with the floor and the defaults
C26_Witness ==
    /\ pc = "running"
    /\ config_file.form = "table"
    /\ config_file.journal_heartbeat_seconds.ty = "int"
    /\ config_file.journal_heartbeat_seconds.v < 30
    /\ config_file.threshold_seconds.ty = "absent"
    /\ config_file.poll_seconds.ty = "absent"
    /\ config_file.treat_inhibitor_as_activity.ty = "absent"
    /\ config = Config

\* the step is a call of TransitionLogger.append that returned
Appended == last'.op = "append" /\ log_files' # log_files

\* the lines a step found in a file are still its first lines, unchanged
EarlierLinesKept ==
    \A d \in LogDays :
        /\ Len(log_files'[d].lines) >= Len(log_files[d].lines)
        /\ SubSeq(log_files'[d].lines, 1, Len(log_files[d].lines)) = log_files[d].lines

\* C27: every append adds exactly one complete line, the JSON object with
\* ts and the event, at the end of the log file of the day of its timestamp
\* and leaves every line written before, in every log file, unchanged; a
\* crash inside an append leaves at most one corrupted trailing line and
\* alters no earlier line.
C27_AppendOnly ==
    [][/\ Appended
          => LET d == Date(last'.when) IN
             /\ log_files'[d].lines =
                    Append(log_files[d].lines, LogLine(last'.when, last'.event))
             /\ ~log_files'[d].fragment
             /\ \A e \in LogDays \ {d} : log_files'[e] = log_files[e]
       /\ EarlierLinesKept]_vars

\* what append does keep, also after a crash: no step alters or removes a
\* line written before, and an append onto a file that ends with a newline
\* adds its complete line to the file of the day of its timestamp only
C27_EarlierLinesKept ==
    [][/\ EarlierLinesKept
       /\ (Appended /\ ~log_files[Date(last'.when)].fragment)
          => /\ log_files'[Date(last'.when)].lines =
                    Append(log_files[Date(last'.when)].lines,
                           LogLine(last'.when, last'.event))
             /\ \A e \in LogDays \ {Date(last'.when)} : log_files'[e] = log_files[e]]_vars

\* C28: under every interleaving of the listener's puts and the steps of
\* drain(), the events returned by the drains so far, then those the drain
\* under way has taken, then those still queued, are the events put, each
\* once and in the order they were put; and a drain under way can always
\* take its next step (it takes an item or returns, the empty list when
\* nothing is queued): it never waits.
C28_HandOff ==
    /\ last.returned \o drain_events \o queue = last.enqueued
    /\ pc = "drain" => ENABLED (DrainGet \/ DrainReturn)
    /\ (last.op = "drain" /\ last.enqueued = <<>>) => last.result = <<>>

\* one drain returned a suspend and then a later resume, in the order they
\* were put, and nothing is left in the queue
C28_Witness ==
    /\ last.op = "drain"
    /\ Len(last.result) = 2
    /\ last.result[1].kind = SUSPEND
    /\ last.result[2].kind = RESUME
    /\ last.result[1].when < last.result[2].when
    /\ last.returned = last.result
    /\ Len(last.enqueued) = 2
    /\ queue = <<>>

\* the step is the loop body of one tick, from the snapshot to time.sleep
TickStep == pc = "tick" /\ pc' = "sleep"

\* the state tracked when the tick comes to classify: BREAK once a suspend
\* of the queue has been applied, else the state the tick began with
TrackedState == IF Suspends(queue) # <<>> THEN BREAK ELSE current_state

\* the start and transition records among the log lines of a tick
TransitionRecords(log) == {i \in 1..Len(log) : log[i].event \in {"start", "transition"}}

HasOp(ops, op) == \E i \in 1..Len(ops) : ops[i].op = op

\* C29: on a tick whose classified state differs from the tracked state, or
\* with no state tracked, the driver calls transition, then appends one
\* start/transition record (start when no state was tracked), then writes
\* the day's journal, all before it sleeps; on a tick without a state change
\* it appends no start/transition record.
C29_TickOrder ==
    [][TickStep =>
        LET tracked == TrackedState
            new_state == current_state'
            event == IF tracked = NoState THEN "start" ELSE "transition"
            records == TransitionRecords(tick_log')
        IN  IF new_state # tracked
            THEN /\ Cardinality(records) = 1
                 /\ \A i \in records :
                        /\ tick_log'[i].event = event
                        /\ tick_log'[i].prev_state = tracked
                        /\ tick_log'[i].next_state = new_state
                 /\ \E k \in 1..(Len(tick_ops') - 2) :
                        /\ tick_ops'[k] = [op |-> "transition", new_state |-> new_state]
                        /\ tick_ops'[k + 1] = [op |-> "log_transition", event |-> event]
                        /\ tick_ops'[k + 2] = [op |-> "write_day", day |-> current_day']
                 /\ get_current_state(manager') = new_state
                 /\ journal'[current_day'] =
                        Some(day_payload(current_day', config, manager', wall, wall))
            ELSE records = {}]_vars

\* a tick that changed ACTIVITY into BREAK has gone to sleep: one transition
\* record, and the three calls in order
C29_Witness ==
    /\ pc = "sleep"
    /\ current_state = BREAK
    /\ Cardinality(TransitionRecords(tick_log)) = 1
    /\ \E i \in TransitionRecords(tick_log) :
          /\ tick_log[i].event = "transition"
          /\ tick_log[i].prev_state = ACTIVITY
    /\ tick_ops = <<[op |-> "transition", new_state |-> BREAK],
                    [op |-> "log_transition", event |-> "transition"],
                    [op |-> "write_day", day |-> current_day]>>

\* C30: a tick that finds journal_heartbeat_seconds or more of monotonic
\* time gone since the last journal write writes the journal and resets the
\* timer, with or without a state change; so after every tick the persisted
\* checkpoint of the open block is younger than journal_heartbeat_seconds at
\* the tick's snapshot, hence never older than that plus the time to the
\* next tick; and a tick with no state change, no rollover, no applied
\* suspend and less than journal_heartbeat_seconds since the last write
\* writes nothing.
C30_Heartbeat ==
    [][TickStep =>
        LET heartbeat == config.journal_heartbeat_seconds * TicksPerSecond
            due == IF last_heartbeat_mono = NoneT THEN FALSE
                   ELSE snapshot.now_mono - last_heartbeat_mono >= heartbeat
            quiet == /\ current_day = Date(snapshot.now_wall)
                     /\ current_state' = current_state
                     /\ current_state # NoState
                     /\ (Suspends(queue) = <<>> \/ current_state = BREAK)
                     /\ ~due
            doc == journal'[current_day'][1]
        IN  /\ due => /\ HasOp(tick_ops', "write_day")
                      /\ last_heartbeat_mono' = snapshot.now_mono
                      /\ journal'[current_day'] =
                             Some(day_payload(current_day', config, manager', wall, wall))
            /\ snapshot.now_mono - last_heartbeat_mono' < heartbeat
            /\ journal'[current_day'] # None
            /\ doc.blocks[Len(doc.blocks)].open
            /\ snapshot.now_wall - fromisoformat(doc.blocks[Len(doc.blocks)].end[1]) < heartbeat
            /\ quiet => /\ journal' = journal
                        /\ last_heartbeat_mono' = last_heartbeat_mono
                        /\ ~HasOp(tick_ops', "write_day")]_vars

\* a tick without a state change wrote the journal because the heartbeat
\* was due
C30_Witness ==
    /\ pc = "sleep"
    /\ tick_log = <<>>
    /\ tick_ops = <<[op |-> "write_day", day |-> current_day]>>
    /\ last_heartbeat_mono = snapshot.now_mono
    /\ snapshot.now_mono >= config.journal_heartbeat_seconds * TicksPerSecond
    /\ journal[current_day] = Some(day_payload(current_day, config, manager, wall, wall))

\* the step applies the drained sleep events, before the regular poll
DrainStep == pc = "tick" /\ pc' = "drained"

\* C31: the drained events are applied in arrival order before the poll.
\* The first SUSPEND met while the tracked state is not BREAK closes the
\* open block (if any) at the event's own timestamp and opens a BREAK block
\* there, makes BREAK the tracked state and writes the journal; every other
\* event (a SUSPEND while BREAK is tracked, a RESUME) changes no block; each
\* event leaves one sleep record, in arrival order.
C31_SleepEvents ==
    [][DrainStep =>
        LET applied == current_state # BREAK /\ Suspends(queue) # <<>>
            when == Head(Suspends(queue)).when
        IN  /\ Len(tick_log') = Len(queue)
            /\ \A i \in 1..Len(queue) :
                   /\ tick_log'[i].event = "sleep"
                   /\ tick_log'[i].ts = queue[i].when
                   /\ tick_log'[i].phase = queue[i].kind
            /\ IF applied
               THEN /\ manager'.blocks =
                          manager.blocks \o
                          (IF manager.current_block = None THEN <<>>
                           ELSE <<[manager.current_block[1] EXCEPT !.end = when]>>)
                    /\ manager'.current_block = Some(Block(BREAK, when, NoneT))
                    /\ current_state' = BREAK
                    /\ journal'[current_day'] =
                           Some(day_payload(current_day', config, manager', wall, wall))
               ELSE /\ manager' = manager
                    /\ current_state' = current_state
                    /\ journal' = journal]_vars

\* a resume and then a later suspend were drained while ACTIVITY was
\* tracked: two sleep records in that order, the ACTIVITY block closed and
\* the BREAK block opened at the suspend's own time, which is not the
\* snapshot's
C31_Witness ==
    /\ pc = "drained"
    /\ Len(tick_log) = 2
    /\ tick_log[1].phase = RESUME
    /\ tick_log[2].phase = SUSPEND
    /\ tick_log[1].ts < tick_log[2].ts
    /\ tick_log[2].ts # snapshot.now_wall
    /\ current_state = BREAK
    /\ Len(manager.blocks) = 1
    /\ manager.blocks[1].type = ACTIVITY
    /\ manager.blocks[1].end = tick_log[2].ts
    /\ manager.current_block = Some(Block(BREAK, tick_log[2].ts, NoneT))

\* the day the tick ends in was entered by a rollover, of this tick or of an
\* earlier one: its history begins with the block opened at its midnight
OpenedAtMidnight ==
    IF current_day # Date(snapshot.now_wall) THEN TRUE
    ELSE LET history == manager.blocks \o manager.current_block
         IN  IF history = <<>> THEN FALSE
             ELSE history[1].start = Midnight(current_day)

\* the tick changed ACTIVITY into BREAK with a cut before the time given
CutBefore(log, t) ==
    \E i \in 1..Len(log) :
        IF log[i].event # "transition" THEN FALSE
        ELSE /\ log[i].prev_state = ACTIVITY
             /\ log[i].next_state = BREAK
             /\ log[i].idle_seconds # NoneT
             /\ log[i].ts - log[i].idle_seconds * TicksPerSecond
                    + config.threshold_seconds * TicksPerSecond < t

\* C32: when ACTIVITY -> BREAK follows a rollover and the retroactive cut
\* lies before the new day's midnight, the cut is raised to the open
\* block's start: the ACTIVITY block ends, and the BREAK block starts, where
\* the ACTIVITY block started, which is the midnight when that block is the
\* one the rollover opened; and no block of the new day's journal starts or
\* ends before that midnight.
C32_NoCutAcrossRollover ==
    [][(TickStep /\ current_day # NoneT /\ OpenedAtMidnight)
       => LET day == current_day'
              midnight == Midnight(day)
              doc == DocumentBlocks(journal', day)
          IN  /\ \A i \in 1..Len(doc) :
                     doc[i].start >= midnight /\ doc[i].end >= midnight
              /\ CutBefore(tick_log', midnight)
                 => LET closed == manager'.blocks[Len(manager'.blocks)]
                    IN  /\ closed.type = ACTIVITY
                        /\ closed.end = closed.start
                        /\ manager'.current_block = Some(Block(BREAK, closed.start, NoneT))
                        /\ (current_day # day \/ manager.current_block = Some(Block(ACTIVITY, midnight, NoneT)))
                              => closed.start = midnight]_vars

\* the tick that rolled the day over also changed ACTIVITY into BREAK, with
\* a cut that lies in the old day
C32_Witness ==
    /\ pc = "sleep"
    /\ HasEntry(tick_log, "rollover")
    /\ CutBefore(tick_log, Midnight(current_day))
    /\ snapshot.now_wall > Midnight(current_day)
    /\ manager.blocks = <<Block(ACTIVITY, Midnight(current_day), Midnight(current_day))>>
    /\ manager.current_block = Some(Block(BREAK, Midnight(current_day), NoneT))
    /\ DocumentBlocks(journal, current_day)[1].end = Midnight(current_day)

Alternates(m) ==
    \A i \in 1..(Len(Chain(m)) - 1) : Chain(m)[i].type # Chain(m)[i + 1].type

\* C33: on a fresh manager driven by transition() alone, adjacent blocks of
\* history + [open block] always have different types; the first call
\* leaves no closed block and one open block, every later call that
\* changes the state adds exactly one closed block and leaves one open block
\* of the new state, and a call that does not change the state adds none:
\* n changing calls leave n - 1 closed blocks and one open block.
C33_Alternation ==
    [][/\ Alternates(manager')
       /\ manager'.current_block # None
       /\ manager'.current_block[1].type = last'.new_state
       /\ Len(manager'.blocks) =
             IF manager.current_block = None THEN 0
             ELSE IF manager.current_block[1].type # last'.new_state
                  THEN Len(manager.blocks) + 1
                  ELSE Len(manager.blocks)]_vars

\* three changing calls, the second ACTIVITY -> BREAK with a cut, followed
\* or not by calls that change nothing: two closed blocks and one open
C33_Witness ==
    /\ last.op = "transition"
    /\ Len(manager.blocks) = 2
    /\ manager.blocks[1].type = ACTIVITY
    /\ manager.blocks[1].end < manager.blocks[2].end
    /\ manager.blocks[2].type = BREAK
    /\ manager.current_block # None
    /\ manager.current_block[1].type = ACTIVITY
    /\ last.new_state = ACTIVITY
    /\ last.prior = manager.current_block

\* C34: at the end of every driver tick the tracked state is set, the
\* current manager has an open block, and the open block's type is the
\* tracked state.
C34_DriverManagerAgree ==
    pc = "sleep"
        => /\ current_state \in State
           /\ manager.current_block # None
           /\ manager.current_block[1].type = current_state

\* a tick that applied a SUSPEND, rolled the day over and then classified
\* the snapshot as ACTIVITY
C34_Witness ==
    /\ pc = "sleep"
    /\ HasEntry(tick_log, "sleep")
    /\ HasEntry(tick_log, "rollover")
    /\ HasEntry(tick_log, "transition")
    /\ current_state = ACTIVITY
    /\ manager.current_block # None
    /\ manager.current_block[1].type = ACTIVITY
    /\ manager.blocks # <<>>

\* C35 as stated: under any interleaving of the sleep listener with the
\* poll loop and the rollover, every block record of every journal file the
\* driver has written ends at or after its start.
C35_WrittenEndNotBeforeStart ==
    \A day \in Days :
        journal[day] # None =>
            \A i \in 1..Len(DocumentBlocks(journal, day)) :
                DocumentBlocks(journal, day)[i].end >= DocumentBlocks(journal, day)[i].start

\* the last sleep record of the tick is a suspend: a SUSPEND has been
\* drained and no RESUME after it
SuspendPending(log) ==
    \E i \in 1..Len(log) :
        /\ log[i].event = "sleep"
        /\ log[i].phase = "suspend"
        /\ \A j \in (i + 1)..Len(log) : log[j].event # "sleep"

\* C36 as stated, for the tick that drains the SUSPEND: when the tick has
\* drained a SUSPEND and no RESUME after it, it ends with BREAK as tracked
\* state and as the type of the open block.
C36_SuspendedIsBreak ==
    [][(TickStep /\ SuspendPending(tick_log'))
          => /\ current_state' = BREAK
             /\ manager'.current_block # None
             /\ manager'.current_block[1].type = BREAK]_vars

\* the sum of the seconds fields of the records of one type
RECURSIVE RecordSeconds(_, _)
RecordSeconds(records, type) ==
    IF records = <<>> THEN 0
    ELSE (IF Head(records).type = type THEN Head(records).seconds ELSE 0)
         + RecordSeconds(Tail(records), type)

\* C37 as stated: in every document that write_day has written, the
\* activity total is the sum of the seconds fields of the document's
\* activity records and the break total the sum over its break records, the
\* open block's checkpoint record included.
C37_TotalsMatchRecords ==
    \A day \in Days :
        journal[day] # None =>
            LET doc == journal[day][1]
            IN  /\ doc.totals.activity_seconds = RecordSeconds(doc.blocks, ACTIVITY)
                /\ doc.totals.break_seconds = RecordSeconds(doc.blocks, BREAK)

\* C38 as stated: every block record of the journal written for a day ends
\* at or before the local midnight of the day after, whatever the gap
\* between consecutive ticks.
C38_RecordsWithinDay ==
    \A day \in Days :
        journal[day] # None =>
            \A i \in 1..Len(DocumentBlocks(journal, day)) :
                DocumentBlocks(journal, day)[i].end <= Midnight(day + 1)

\* every record without the open flag of the earlier document stands at the
\* same position of the later one, with the same type, start and end
ClosedRecordsKept(earlier, later) ==
    \A i \in 1..Len(earlier.blocks) :
        earlier.blocks[i].open
        \/ /\ i <= Len(later.blocks)
           /\ later.blocks[i].type = earlier.blocks[i].type
           /\ later.blocks[i].start = earlier.blocks[i].start
           /\ later.blocks[i].end = earlier.blocks[i].end

\* C39: a day's journal is only ever replaced by a document that keeps
\* every record without the open flag where it was, with the same type,
\* start and end, whether the same process writes again or a restarted one
\* that loaded the journal; within a process the manager's history, which
\* every write of a tick serialises, only grows at its end.
C39_AppendOnlyHistory ==
    [][/\ \A day \in Days :
             journal[day] # None
                 => /\ journal'[day] # None
                    /\ ClosedRecordsKept(journal[day][1], journal'[day][1])
       /\ (TickStep /\ current_day # NoneT /\ current_day' = current_day)
             => /\ Len(manager'.blocks) >= Len(manager.blocks)
                /\ SubSeq(manager'.blocks, 1, Len(manager.blocks)) = manager.blocks]_vars

\* the first tick of a restarted process has written the day's journal
\* again: a record closed before the restart, the record of the block that
\* was open then, closed at its checkpoint, and the new open block
C39_Witness ==
    /\ pc = "sleep"
    /\ restarts = 1
    /\ HasEntry(tick_log, "start")
    /\ ~HasEntry(tick_log, "sleep")
    /\ journal[current_day] # None
    /\ Len(journal[current_day][1].blocks) = 3
    /\ ~journal[current_day][1].blocks[1].open
    /\ ~journal[current_day][1].blocks[2].open
    /\ journal[current_day][1].blocks[3].open
    /\ Len(manager.blocks) = 2

====
